---------------------------- MODULE Spec2Model ----------------------------
(***************************************************************************)
(* A model of the streaming bencode decoder of tcore:                      *)
(*   bencode/parser.rs   parse_int, parse_string (the tokenizer)           *)
(*   bencode/stack.rs    Stack, Container, DictBuilder                     *)
(*   bencode/decoder.rs  Decoder::decode, next_token, refill, advance_buf  *)
(* Bytes are their ASCII codes.  A signed 64-bit integer is kept as a sign *)
(* and a magnitude in decimal digits (no leading zero, zero = <<>>), so    *)
(* that the whole i64 range and its overflow checks are represented.       *)
(***************************************************************************)
EXTENDS Integers, Sequences, FiniteSets, TLC

(***************************************************************************)
(* Bytes the code matches on.                                              *)
(***************************************************************************)
b_i == 105
b_l == 108
b_d == 100
b_e == 101
b_colon == 58
b_minus == 45
b_plus == 43
b_0 == 48
b_9 == 57
b_a == 97
b_NUL == 0

IsDigit(b) == b >= b_0 /\ b <= b_9

(***************************************************************************)
(* Option<T>: None is <<>>, Some(x) is <<x>>.                              *)
(***************************************************************************)
None == <<>>
Some(x) == <<x>>

NotFound == -1

\* buf[k] with Rust's 0-based index.
At(buf, k) == buf[k + 1]

\* buf[from..to] with Rust's 0-based, end-exclusive range.
Slice(buf, from, to) == SubSeq(buf, from + 1, to)

\* buf.iter().position(|x| *x == b): 0-based index of the first b, or NotFound.
Position(buf, b) ==
    IF \E k \in 1..Len(buf) : buf[k] = b
    THEN (CHOOSE k \in 1..Len(buf) :
             buf[k] = b /\ \A j \in 1..(k - 1) : buf[j] # b) - 1
    ELSE NotFound

(***************************************************************************)
(* Checked decimal arithmetic on magnitudes (sequences of digits 0..9).    *)
(***************************************************************************)
I64MaxMag == <<9,2,2,3,3,7,2,0,3,6,8,5,4,7,7,5,8,0,7>>
I64MinMag == <<9,2,2,3,3,7,2,0,3,6,8,5,4,7,7,5,8,0,8>>
USizeMaxMag == <<1,8,4,4,6,7,4,4,0,7,3,7,0,9,5,5,1,6,1,5>>

MagGreater(a, b) ==
    \/ Len(a) > Len(b)
    \/ /\ Len(a) = Len(b)
       /\ \E k \in 1..Len(a) : a[k] > b[k] /\ \A j \in 1..(k - 1) : a[j] = b[j]

\* number * 10 + digit (or, for a negative number, number * 10 - digit).
MulAdd(mag, d) == IF mag = <<>> /\ d = 0 THEN <<>> ELSE Append(mag, d)

\* checked_mul(10) then checked_add/checked_sub(digit): None on overflow.
CheckedMulAdd(number, d, limit) ==
    IF number = None THEN None
    ELSE LET m == MulAdd(number[1], d)
         IN  IF MagGreater(m, limit) THEN None ELSE Some(m)

\* The digit loop of from_radix_10_signed_checked: it stops at the first
\* byte that is not a digit; after an overflow the number stays None while
\* the index still runs over the remaining digits.
RECURSIVE DigitLoop(_, _, _, _)
DigitLoop(text, index, number, limit) ==
    IF index = Len(text) \/ ~IsDigit(At(text, index))
    THEN [n |-> number, used |-> index]
    ELSE DigitLoop(text, index + 1,
                   CheckedMulAdd(number, At(text, index) - b_0, limit), limit)

\* An i64 value.
I64(neg, mag) == [neg |-> neg /\ mag # <<>>, mag |-> mag]

\* I::from_radix_10_signed_checked(text) -> (Option<I>, usize): an optional
\* sign (+ or -), then digits.  The bounds are those of the integer type:
\* maxMag for a number >= 0, minMag for a number < 0.
Signed(neg, r) ==
    [n |-> IF r.n = None THEN None ELSE Some(I64(neg, r.n[1])), used |-> r.used]

FromRadix10SignedChecked(text, maxMag, minMag) ==
    IF text # <<>> /\ At(text, 0) = b_minus
    THEN Signed(TRUE, DigitLoop(text, 1, Some(<<>>), minMag))
    ELSE IF text # <<>> /\ At(text, 0) = b_plus
    THEN Signed(FALSE, DigitLoop(text, 1, Some(<<>>), maxMag))
    ELSE Signed(FALSE, DigitLoop(text, 0, Some(<<>>), maxMag))

\* atoi::atoi::<usize>(text): None when no byte was used or on overflow.
AtoiResult(r) == IF r.used = 0 \/ r.n = None THEN None ELSE r.n

AtoiUsize(text) == AtoiResult(FromRadix10SignedChecked(text, USizeMaxMag, <<>>))

\* The magnitude as a number (used for string lengths, at most 7 digits).
RECURSIVE MagToNat(_)
MagToNat(mag) ==
    IF mag = <<>> THEN 0
    ELSE 10 * MagToNat(SubSeq(mag, 1, Len(mag) - 1)) + mag[Len(mag)]


(***************************************************************************)
(* value.rs: Value.  A Dictionary is the vector of its (key, value) pairs  *)
(* in insertion order.                                                     *)
(***************************************************************************)
IntV(n) == <<"Int", n>>
StringV(s) == <<"String", s>>
ListV(l) == <<"List", l>>
DictionaryV(pairs) == <<"Dictionary", pairs>>

IsStringV(v) == v[1] = "String"

(***************************************************************************)
(* parser.rs: Token and the two parsers.  A parser returns                 *)
(* Ok((Option<Token>, consumed)) or Err(kind).                             *)
(***************************************************************************)
Primitive(v) == <<"Primitive", v>>
BeginList == <<"BeginList">>
BeginDict == <<"BeginDict">>
EndOfObj == <<"EndOfObj">>
Invalid == <<"Invalid">>

ParseOk(tok, len) == [err |-> "none", tok |-> tok, len |-> len]
ParseErr(e) == [err |-> e, tok |-> None, len |-> 0]

\* The largest length prefix (in bytes) parse_string accepts.
MaxStringPrefix == 7
\* The largest integer payload (in bytes) parse_int accepts.
MaxIntPayload == 19

\* parse_string, once the length len is parsed: the token, if buf holds it all.
\* string_token with the consumed length one byte short: the last payload
\* byte stays in the buffer and is read as the next token.
string_token_short(buf, i, len) ==
    IF Len(buf) < len + i + 1 THEN ParseOk(None, 0)
    ELSE ParseOk(Some(Primitive(StringV(Slice(buf, i + 1, i + 1 + len)))),
                 i + len)

string_token(buf, i, len) ==
    IF Len(buf) < len + i + 1 THEN ParseOk(None, 0)
    ELSE ParseOk(Some(Primitive(StringV(Slice(buf, i + 1, i + 1 + len)))),
                 i + len + 1)

\* parse_string, from the match on atoi's result n.
string_len(buf, i, n) ==
    IF n = None THEN ParseErr("InvalidSyntax")
    ELSE string_token(buf, i, MagToNat(n[1].mag))

\* parse_string, once the position i of the first ':' is known.
parse_string_at(buf, i) ==
    IF i = NotFound THEN ParseOk(None, 0)
    ELSE IF At(buf, 0) = b_0 /\ At(buf, 1) # b_colon THEN ParseErr("InvalidSyntax")
    ELSE IF i > MaxStringPrefix THEN ParseErr("ValueTooLarge")
    ELSE string_len(buf, i, AtoiUsize(Slice(buf, 0, i)))

parse_string(buf) == parse_string_at(buf, Position(buf, b_colon))

\* parse_int, from the match on the result r = (maybe_n, len) of the parse.
int_token(i, r) ==
    IF r.n # None
    THEN IF r.used # i - 1 THEN ParseErr("InvalidSyntax")
         ELSE ParseOk(Some(Primitive(IntV(r.n[1]))), i + 1)
    ELSE ParseErr("InvalidSyntax")

\* parse_int with the size test off by one: a payload of 19 bytes is too large.
parse_int_at_off_by_one(buf, i) ==
    IF i = NotFound THEN ParseOk(None, 0)
    ELSE IF At(buf, 1) = b_minus /\ At(buf, 2) = b_0 THEN ParseErr("InvalidSyntax")
    ELSE IF At(buf, 1) = b_0 /\ At(buf, 2) # b_e THEN ParseErr("InvalidSyntax")
    ELSE IF i - 1 >= MaxIntPayload THEN ParseErr("ValueTooLarge")
    ELSE int_token(i, FromRadix10SignedChecked(Slice(buf, 1, i), I64MaxMag, I64MinMag))

\* parse_int, once the position i of the first 'e' is known.
parse_int_at(buf, i) ==
    IF i = NotFound THEN ParseOk(None, 0)
    ELSE IF At(buf, 1) = b_minus /\ At(buf, 2) = b_0 THEN ParseErr("InvalidSyntax")
    ELSE IF At(buf, 1) = b_0 /\ At(buf, 2) # b_e THEN ParseErr("InvalidSyntax")
    ELSE IF i - 1 > MaxIntPayload THEN ParseErr("ValueTooLarge")
    ELSE int_token(i, FromRadix10SignedChecked(Slice(buf, 1, i), I64MaxMag, I64MinMag))

parse_int(buf) == parse_int_at(buf, Position(buf, b_e))

(***************************************************************************)
(* stack.rs: the structural stack.  A container is a growing list or a     *)
(* dict-builder (completed pairs and an optional pending key).             *)
(***************************************************************************)
new_list == [kind |-> "List", items |-> <<>>, pending_key |-> None]
new_dict == [kind |-> "Dict", items |-> <<>>, pending_key |-> None]

StackOk(st, ret) == [err |-> "none", stack |-> st, ret |-> ret]
StackErr(st, e) == [err |-> e, stack |-> st, ret |-> None]

\* DictBuilder::insert without the match on Value::String: any value is a key.
DictBuilder_insert_any_key(d, v) ==
    IF d.pending_key = None
    THEN [err |-> "none", c |-> [d EXCEPT !.pending_key = Some(v[2])]]
    ELSE [err |-> "none",
          c |-> [d EXCEPT !.items = Append(@, <<d.pending_key[1], v>>),
                          !.pending_key = None]]

\* DictBuilder::insert: Ok(the builder after the insert) or Err.
DictBuilder_insert(d, v) ==
    IF d.pending_key = None
    THEN IF IsStringV(v)
         THEN [err |-> "none", c |-> [d EXCEPT !.pending_key = Some(v[2])]]
         ELSE [err |-> "PushToDictError", c |-> d]
    ELSE [err |-> "none",
          c |-> [d EXCEPT !.items = Append(@, <<d.pending_key[1], v>>),
                          !.pending_key = None]]

\* DictBuilder::finish
DictBuilder_finish(d) ==
    IF d.pending_key # None
    THEN [err |-> "OrphanedKey", v |-> None]
    ELSE [err |-> "none", v |-> Some(d.items)]

\* Container::push_value
Container_push_value(c, v) ==
    IF c.kind = "List"
    THEN [err |-> "none", c |-> [c EXCEPT !.items = Append(@, v)]]
    ELSE DictBuilder_insert(c, v)

\* d.finish()?.into()
finished_dict(f) ==
    IF f.err # "none" THEN f ELSE [err |-> "none", v |-> Some(DictionaryV(f.v[1]))]

\* Container::to_value
Container_to_value(c) ==
    IF c.kind = "List"
    THEN [err |-> "none", v |-> Some(ListV(c.items))]
    ELSE finished_dict(DictBuilder_finish(c))

\* Stack::push_value: with an empty stack the value is the completed root.
pushed(st, r) ==
    IF r.err # "none" THEN StackErr(st, r.err)
    ELSE StackOk([st EXCEPT ![Len(st)] = r.c], None)

push_value(st, v) ==
    IF st # <<>> THEN pushed(st, Container_push_value(st[Len(st)], v))
    ELSE StackOk(st, Some(v))

push_list(st) == Append(st, new_list)

push_dict(st) == Append(st, new_dict)

\* Stack::pop_container: with an empty stack nothing happens (Ok(None)).
\* pop_container, with the stack left by pop() and the popped container's value.
popped(rest, tv) ==
    IF tv.err # "none" THEN StackErr(rest, tv.err) ELSE push_value(rest, tv.v[1])

pop_container(st) ==
    IF st # <<>>
    THEN popped(SubSeq(st, 1, Len(st) - 1), Container_to_value(st[Len(st)]))
    ELSE StackOk(st, None)

(***************************************************************************)
(* decoder.rs: the tokenizer step of the streaming decoder.                *)
(***************************************************************************)
\* advance_buf that removes nothing.
advance_buf_stuck(buf, n) == buf

\* Decoder::advance_buf
advance_buf(buf, n) == IF Len(buf) >= n THEN SubSeq(buf, n + 1, Len(buf)) ELSE buf

\* next_token, from the match on a parser's result p: Err(e) is returned as
\* it is, Ok((maybe_token, len)) advances the buffer by len.
parsed(buf, p) ==
    [err |-> p.err, tok |-> p.tok,
     buf |-> IF p.err = "none" THEN advance_buf(buf, p.len) ELSE buf]

\* Decoder::next_token: Err(kind), or Ok(Option<Token>) and the buffer left.
next_token(buf) ==
    IF buf = <<>> THEN [err |-> "none", tok |-> None, buf |-> buf]
    ELSE IF At(buf, 0) = b_i THEN parsed(buf, parse_int(buf))
    ELSE IF IsDigit(At(buf, 0)) THEN parsed(buf, parse_string(buf))
    ELSE IF At(buf, 0) = b_l
    THEN [err |-> "none", tok |-> Some(BeginList), buf |-> advance_buf(buf, 1)]
    ELSE IF At(buf, 0) = b_d
    THEN [err |-> "none", tok |-> Some(BeginDict), buf |-> advance_buf(buf, 1)]
    ELSE IF At(buf, 0) = b_e
    THEN [err |-> "none", tok |-> Some(EndOfObj), buf |-> advance_buf(buf, 1)]
    ELSE [err |-> "none", tok |-> Some(Invalid), buf |-> buf]

(***************************************************************************)
(* The bencode wire format, as a reference encoder: the inputs of the      *)
(* model are built with it.                                                *)
(*   integer  i<signed-decimal>e     byte string  <length>:<bytes>         *)
(*   list     l<values>e             dictionary   d<key value ...>e        *)
(***************************************************************************)
RECURSIVE Concat(_)
Concat(seqs) == IF seqs = <<>> THEN <<>> ELSE Head(seqs) \o Concat(Tail(seqs))

DigitBytes(mag) == [k \in 1..Len(mag) |-> b_0 + mag[k]]

\* The canonical decimal of a number given by sign and magnitude.
Decimal(neg, mag) ==
    IF mag = <<>> THEN <<b_0>>
    ELSE (IF neg THEN <<b_minus>> ELSE <<>>) \o DigitBytes(mag)

RECURSIVE NatDecimal(_)
NatDecimal(n) ==
    IF n < 10 THEN <<b_0 + n>> ELSE NatDecimal(n \div 10) \o <<b_0 + (n % 10)>>

RECURSIVE Enc(_)
Enc(v) ==
    CASE v[1] = "Int" -> <<b_i>> \o Decimal(v[2].neg, v[2].mag) \o <<b_e>>
      [] v[1] = "String" -> NatDecimal(Len(v[2])) \o <<b_colon>> \o v[2]
      [] v[1] = "List" ->
            <<b_l>> \o Concat([k \in 1..Len(v[2]) |-> Enc(v[2][k])]) \o <<b_e>>
      [] v[1] = "Dictionary" ->
            <<b_d>>
            \o Concat([k \in 1..Len(v[2]) |->
                          Enc(StringV(v[2][k][1])) \o Enc(v[2][k][2])])
            \o <<b_e>>

(***************************************************************************)
(* Bounds of the model.                                                    *)
(***************************************************************************)
\* The longest list of the nested values.
MaxListLen == 2
\* The largest refill chunk the source hands over, short of all it has.
MaxChunk == 3
\* The longest enumerated integer payload.
MaxPayloadLen == 3
\* The longest enumerated string length prefix.
MaxPrefixLen == 2

RECURSIVE SeqsOfLen(_, _)
SeqsOfLen(S, n) ==
    IF n = 0 THEN {<<>>}
    ELSE {Append(s, x) : s \in SeqsOfLen(S, n - 1), x \in S}

SeqsUpTo(S, n) == UNION {SeqsOfLen(S, k) : k \in 0..n}

(***************************************************************************)
(* The values whose encodings are decoded.                                 *)
(***************************************************************************)
Ten18Mag == <<1,0,0,0,0,0,0,0,0,0,0,0,0,0,0,0,0,0,0>>

SmallInts == {I64(FALSE, <<>>), I64(FALSE, <<4, 2>>), I64(TRUE, <<7>>)}
BigInts == {I64(FALSE, I64MaxMag), I64(TRUE, I64MinMag), I64(TRUE, Ten18Mag)}

\* Payloads with the bytes the tokenizer gives a meaning to: NUL, e, :, i, l, d, digits.
Strs ==
    {<<>>, <<b_a>>, <<b_e, b_colon>>, <<b_NUL, b_i, b_l>>, <<b_d, b_0 + 1, b_e>>}

Keys == <<(<<b_a>>), (<<b_a, b_e>>)>>

NestAtoms ==
    {IntV(n) : n \in SmallInts} \cup {StringV(<<>>), StringV(<<b_e, b_colon>>)}

Atoms ==
    {IntV(n) : n \in SmallInts \cup BigInts} \cup {StringV(s) : s \in Strs}

Lists1 == {ListV(l) : l \in SeqsUpTo(NestAtoms, MaxListLen)}

Dicts1 ==
    {DictionaryV(<<>>)}
    \cup {DictionaryV(<< <<Keys[k], x>> >>) : k \in 1..2, x \in NestAtoms}
    \cup {DictionaryV(<< <<Keys[1], x>>, <<Keys[2], y>> >>) :
             x \in NestAtoms, y \in NestAtoms}

Containers1 == Lists1 \cup Dicts1

Level2 ==
    {ListV(<<c>>) : c \in Containers1}
    \cup {DictionaryV(<< <<Keys[1], c>> >>) : c \in Containers1}
    \cup {ListV(<<x>>) : x \in Atoms}
    \cup {ListV(<<x, IntV(I64(FALSE, <<>>))>>) : x \in Atoms}
    \cup {DictionaryV(<< <<Keys[2], x>> >>) : x \in Atoms}

Values == Atoms \cup Containers1 \cup Level2

(***************************************************************************)
(* The sources the decoder is run on.  A case records how its bytes were   *)
(* built: fam is the family, val the value the bytes were built from (if   *)
(* any) and aux the varied part (trailing bytes, payload, length prefix).  *)
(***************************************************************************)
MkCase(fam, bytes, val, aux) ==
    [fam |-> fam, bytes |-> bytes, val |-> val, aux |-> aux]

\* A valid encoding, whole.
ValidCases == {MkCase("valid", Enc(v), Some(v), <<>>) : v \in Values}

PrefixValues ==
    Atoms
    \cup {ListV(<<x>>) : x \in Atoms}
    \cup {ListV(<<IntV(I64(FALSE, <<4, 2>>)), StringV(<<b_e, b_colon>>)>>),
          DictionaryV(<< <<Keys[1], IntV(I64(TRUE, <<7>>))>>,
                         <<Keys[2], ListV(<<StringV(<<b_a>>)>>)>> >>),
          ListV(<<DictionaryV(<< <<Keys[1], StringV(<<>>)>> >>)>>)}

\* Every proper prefix of a valid encoding, the empty one included.
PrefixCases ==
    UNION {{MkCase("prefix", SubSeq(Enc(v), 1, k), Some(v), <<>>) :
               k \in 0..(Len(Enc(v)) - 1)} : v \in PrefixValues}

TrailValues ==
    {IntV(I64(FALSE, <<4, 2>>)), StringV(<<>>), StringV(<<b_e, b_colon>>),
     ListV(<<>>), DictionaryV(<<>>),
     ListV(<<IntV(I64(TRUE, <<7>>)), StringV(<<b_a>>)>>),
     DictionaryV(<< <<Keys[1], ListV(<<IntV(I64(FALSE, <<>>))>>)>> >>)}

Trails ==
    {<<b_e>>, <<b_a>>, <<b_i, b_0 + 7, b_e>>, <<b_0 + 1, b_colon, b_a>>, <<b_l>>,
     <<b_0, b_colon, b_d, b_e>>}

\* A valid encoding followed by at least one more byte.
TrailCases ==
    {MkCase("trail", Enc(v) \o t, Some(v), t) : v \in TrailValues, t \in Trails}

PayloadBytes == {b_0, b_0 + 1, b_minus, b_plus, b_a}

Ones(n) == [k \in 1..n |-> b_0 + 1]

\* Payloads around the size bound of the tokenizer: n digits, or - and n - 1
\* digits, and two long payloads with a leading zero.
LongPayloads ==
    {Ones(n) : n \in 18..23} \cup {<<b_minus>> \o Ones(n - 1) : n \in 18..23}
        \cup {<<b_0>> \o Ones(21), <<b_minus, b_0>> \o Ones(20)}

\* i<payload>e for every short payload over PayloadBytes and the long ones.
IntCases ==
    {MkCase("int", <<b_i>> \o p \o <<b_e>>, None, p) :
        p \in SeqsUpTo(PayloadBytes, MaxPayloadLen) \cup LongPayloads}

PrefixBytes == {b_0, b_0 + 1, b_0 + 4, b_a}

StrPayloads == {<<>>, <<b_a>>, <<116, 101, 115, 116>>}

\* Length prefixes around the size bound: 1 followed by n - 1 zeros, and a long
\* prefix with a leading zero.
LongPrefixes ==
    {<<b_0 + 1>> \o [k \in 1..(n - 1) |-> b_0] : n \in {6, 7, 8, 9, 21, 22}}
        \cup {<<b_0>> \o Ones(21)}

\* <prefix>:<bytes> for every short prefix over PrefixBytes and the long ones.
StrCases ==
    {MkCase("str", p \o <<b_colon>> \o s, Some(StringV(s)), p) :
        p \in (SeqsUpTo(PrefixBytes, MaxPrefixLen) \ {<<>>}) \cup LongPrefixes,
        s \in StrPayloads}

\* Canonical decimals inside and outside the signed 64-bit range.
CanonMags ==
    {<<>>, <<1>>, <<4, 2>>, I64MaxMag, I64MinMag,
     <<9,2,2,3,3,7,2,0,3,6,8,5,4,7,7,5,8,0,9>>,
     <<9,9,9,9,9,9,9,9,9,9,9,9,9,9,9,9,9,9>>,
     Ten18Mag, Ten18Mag \o <<0>>}

CanonCases ==
    {MkCase("canon", <<b_i>> \o Decimal(neg, mag) \o <<b_e>>,
            Some(IntV([neg |-> neg, mag |-> mag])), <<>>) :
        neg \in BOOLEAN, mag \in CanonMags} \ 
    {MkCase("canon", <<b_i>> \o Decimal(TRUE, <<>>) \o <<b_e>>,
            Some(IntV([neg |-> TRUE, mag |-> <<>>])), <<>>)}

NonStrings ==
    {IntV(I64(FALSE, <<4, 2>>)), IntV(I64(TRUE, <<7>>)), ListV(<<>>),
     DictionaryV(<<>>), ListV(<<StringV(<<b_a>>)>>),
     DictionaryV(<< <<Keys[1], StringV(<<b_a>>)>> >>)}

\* The complete pairs that come before the offending position.
PairsBefore == {<<>>, Enc(StringV(Keys[1])) \o Enc(IntV(I64(FALSE, <<>>)))}

AfterKey == {<<>>, Enc(StringV(<<116, 101, 115, 116>>)), Enc(IntV(I64(FALSE, <<>>)))}

\* d ... <value that is no byte string, in key position> ... e, as di42e4:teste.
DictKeyCases ==
    {MkCase("dictkey", <<b_d>> \o pre \o Enc(x) \o y \o <<b_e>>, Some(x), pre) :
        pre \in PairsBefore, x \in NonStrings, y \in AfterKey}
    \cup {MkCase("dictkey", <<b_l, b_d>> \o pre \o Enc(x) \o <<b_e, b_e>>, Some(x), pre) :
             pre \in PairsBefore, x \in NonStrings}

\* d ... <key> e: a dictionary closed while a key waits for its value, as d4:teste.
OrphanCases ==
    {MkCase("orphan", <<b_d>> \o pre \o Enc(StringV(k)) \o <<b_e>>,
            Some(StringV(k)), pre) : pre \in PairsBefore, k \in Strs}
    \cup {MkCase("orphan", <<b_l, b_d>> \o pre \o Enc(StringV(k)) \o <<b_e, b_e>>,
                 Some(StringV(k)), pre) : pre \in PairsBefore, k \in Strs}

\* The pairs of a dictionary, in the order they are written.
EncPairs(pairs) ==
    <<b_d>> \o Concat([k \in 1..Len(pairs) |->
                          Enc(StringV(pairs[k][1])) \o Enc(pairs[k][2])])
            \o <<b_e>>

\* A dictionary that writes the same key twice, alone and inside a list.
DupKeyCases ==
    {MkCase("dupkey", EncPairs(<< <<k, x>>, <<k, y>> >>),
            Some(DictionaryV(<< <<k, x>>, <<k, y>> >>)), k) :
        k \in {Keys[1], Keys[2]}, x \in NestAtoms, y \in NestAtoms}
    \cup {MkCase("dupkey", <<b_l>> \o EncPairs(<< <<Keys[1], x>>, <<Keys[1], x>> >>) \o <<b_e>>,
                 Some(ListV(<<DictionaryV(<< <<Keys[1], x>>, <<Keys[1], x>> >>)>>)),
                 Keys[1]) : x \in NestAtoms}

\* A dictionary written with its keys in descending order; val is the
\* dictionary built from the same pairs in sorted order.
UnsortedCases ==
    {MkCase("unsorted", EncPairs(<< <<Keys[2], y>>, <<Keys[1], x>> >>),
            Some(DictionaryV(<< <<Keys[1], x>>, <<Keys[2], y>> >>)), <<>>) :
        x \in NestAtoms, y \in NestAtoms}

\* One or two e with nothing open, alone and before a complete value, as
\* ei42e.
StrayCases ==
    {MkCase("stray", es \o rest, None, es) :
        es \in {<<b_e>>, <<b_e, b_e>>},
        rest \in {<<>>} \cup {Enc(v) : v \in {IntV(I64(FALSE, <<4, 2>>)),
                                              StringV(<<b_a>>), ListV(<<>>),
                                              DictionaryV(<<>>)}}}

Cases ==
    ValidCases \cup PrefixCases \cup TrailCases \cup IntCases \cup StrCases
    \cup CanonCases \cup DictKeyCases \cup OrphanCases
    \cup DupKeyCases \cup UnsortedCases \cup StrayCases

(***************************************************************************)
(* decoder.rs: Decoder.  src is what the source still holds, buf the       *)
(* internal buffer, stack the structural stack, result what decode()       *)
(* returned (Running until it returns).                                    *)
(***************************************************************************)
\* chunks counts the refills that handed over bytes.
VARIABLES case, src, buf, stack, result, chunks

(***************************************************************************)
(* torrent.rs: TorrentBuilder.  tcase is the buffer the builder is built   *)
(* on, dec_pos the cursor of its decoder, state and info_begin the fields  *)
(* of the builder, torrent the descriptor under construction and built     *)
(* what build() returned.                                                  *)
(***************************************************************************)
VARIABLES tcase, dec_pos, state, info_begin, torrent, built

(***************************************************************************)
(* session.rs / client.rs: Session.  which names the implementation,       *)
(* routes is the routing table, incoming the event channel, dispatch the   *)
(* status of the dispatch task, delivered what each sink received, handled *)
(* the connections the dispatch task took from the channel and issued the  *)
(* number of sinks and connections created so far.                         *)
(***************************************************************************)
VARIABLES which, routes, incoming, dispatch, delivered, handled, issued

\* The worker of worker.rs: where it is in its loop (wpc), its fields, its
\* command channel (the queue and whether a sender is left) and its status
\* watch; wlog records what was sent to it and what it did.  The tracker
\* of tracker.rs: whether begin has returned, the task it spawned and the
\* status watch it reads.
VARIABLES wpc, worker_state, tracker_state, left, command_rx, command_tx
VARIABLES status_tx, wlog, begun, join, status_rx

\* The whole-buffer tokenizer of bencodev2/decoder.rs: the buffer it was
\* made on (with the tokens it is made of), its cursor, the cursor before
\* the last call of next_token, what that call returned and the number of
\* calls so far.
VARIABLES v2case, v2pos, v2from, v2ret, v2calls

decVars == <<case, src, buf, stack, result, chunks>>
torVars == <<tcase, dec_pos, state, info_begin, torrent, built>>
sessVars == <<which, routes, incoming, dispatch, delivered, handled, issued>>

workVars ==
    <<wpc, worker_state, tracker_state, left, command_rx, command_tx, status_tx,
      wlog, begun, join, status_rx>>

v2Vars == <<v2case, v2pos, v2from, v2ret, v2calls>>

vars == <<decVars, torVars, sessVars, workVars, v2Vars>>

\* No decoder is running.
DecoderIdle ==
    /\ case = <<>> /\ src = <<>> /\ buf = <<>> /\ stack = <<>>
    /\ result = <<"Idle">> /\ chunks = 0

\* No torrent is being built.
TorrentIdle ==
    /\ tcase = <<>> /\ dec_pos = 0 /\ state = "Idle" /\ info_begin = 0
    /\ torrent = <<>> /\ built = <<"Idle">>

\* No session is bound.
SessionIdle ==
    /\ which = "none" /\ routes = {} /\ incoming = <<>> /\ dispatch = "idle"
    /\ delivered = <<>> /\ handled = <<>> /\ issued = 0

Running == <<"Running">>
Ok(v) == <<"Ok", v>>
Err(kind) == <<"Err", kind>>
InvalidStructure(e) == <<"Err", "InvalidStructure", e>>

\* No worker and no tracker.
WorkerIdle ==
    /\ wpc = "none" /\ worker_state = "none" /\ tracker_state = "none"
    /\ left = 0 /\ command_rx = <<>> /\ command_tx = FALSE /\ status_tx = <<>>
    /\ wlog = <<>> /\ begun = "no" /\ join = "none" /\ status_rx = <<>>

\* No whole-buffer tokenizer.
V2Idle ==
    /\ v2case = <<>> /\ v2pos = 0 /\ v2from = 0 /\ v2ret = <<"Idle">>
    /\ v2calls = 0

\* Decoder::new on a source holding the bytes of the case.
Init ==
    /\ case \in Cases
    /\ src = case.bytes
    /\ buf = <<>>
    /\ stack = <<>>
    /\ result = Running
    /\ chunks = 0
    /\ TorrentIdle
    /\ SessionIdle
    /\ WorkerIdle
    /\ V2Idle

\* The sizes fill_buf may hand over: up to MaxChunk bytes, or all that is left.
ChunkSizes(s) == {k \in 1..Len(s) : k <= MaxChunk \/ k = Len(s)}

\* decode's exit without the look at the buffer.
Finish_unchecked(v, b) == Ok(v)

\* decode, after the loop: the completed root, unless bytes are left in buf.
Finish(v, b) == IF b # <<>> THEN Err("TrailingDataInBuffer") ELSE Ok(v)

\* The outcome of Stack::push_value / pop_container in decode's loop.
AfterStack(r, b) ==
    /\ buf' = b
    /\ stack' = r.stack
    /\ result' = IF r.err # "none" THEN InvalidStructure(r.err)
                 ELSE IF r.ret # None THEN Finish(r.ret[1], b)
                 ELSE Running
    /\ UNCHANGED <<torVars, sessVars, workVars, v2Vars, case, src, chunks>>

\* next_token()? returned Err: decode returns it.
TokenError ==
    /\ result = Running
    /\ \E t \in {next_token(buf)} :
       /\ t.err # "none"
       /\ result' = Err(t.err)
       /\ UNCHANGED <<torVars, sessVars, workVars, v2Vars, case, src, buf, stack, chunks>>

\* Token::Int(v)
TokenInt ==
    /\ result = Running
    /\ \E t \in {next_token(buf)} :
       /\ t.err = "none" /\ t.tok # None
       /\ t.tok[1][1] = "Primitive" /\ t.tok[1][2][1] = "Int"
       /\ AfterStack(push_value(stack, t.tok[1][2]), t.buf)

\* Token::String(v)
TokenString ==
    /\ result = Running
    /\ \E t \in {next_token(buf)} :
       /\ t.err = "none" /\ t.tok # None
       /\ t.tok[1][1] = "Primitive" /\ t.tok[1][2][1] = "String"
       /\ AfterStack(push_value(stack, t.tok[1][2]), t.buf)

\* Token::BeginList
TokenBeginList ==
    /\ result = Running
    /\ \E t \in {next_token(buf)} :
       /\ t.err = "none" /\ t.tok = Some(BeginList)
       /\ buf' = t.buf
       /\ stack' = push_list(stack)
       /\ UNCHANGED <<torVars, sessVars, workVars, v2Vars, case, src, result, chunks>>

\* Token::BeginDict
TokenBeginDict ==
    /\ result = Running
    /\ \E t \in {next_token(buf)} :
       /\ t.err = "none" /\ t.tok = Some(BeginDict)
       /\ buf' = t.buf
       /\ stack' = push_dict(stack)
       /\ UNCHANGED <<torVars, sessVars, workVars, v2Vars, case, src, result, chunks>>

\* Token::EndOfObj
TokenEndOfObj ==
    /\ result = Running
    /\ \E t \in {next_token(buf)} :
       /\ t.err = "none" /\ t.tok = Some(EndOfObj)
       /\ AfterStack(pop_container(stack), t.buf)

\* Token::Invalid
TokenInvalid ==
    /\ result = Running
    /\ \E t \in {next_token(buf)} :
       /\ t.err = "none" /\ t.tok = Some(Invalid)
       /\ result' = Err("InvalidSyntax")
       /\ UNCHANGED <<torVars, sessVars, workVars, v2Vars, case, src, buf, stack, chunks>>

\* refill that overwrites the buffer with the chunk instead of extending it.
refill_overwrites(b, s, k) == [buf |-> SubSeq(s, 1, k), src |-> SubSeq(s, k + 1, Len(s))]

\* Decoder::refill: the k bytes fill_buf hands over are appended to buf and
\* consumed from the source.
refill(b, s, k) == [buf |-> b \o SubSeq(s, 1, k), src |-> SubSeq(s, k + 1, Len(s))]

\* next_token returned None and the source has bytes: refill and loop.
Refill ==
    /\ result = Running
    /\ \E t \in {next_token(buf)} :
       /\ t.err = "none" /\ t.tok = None
       /\ \E k \in ChunkSizes(src) :
             \E r \in {refill(buf, src, k)} :
                /\ buf' = r.buf
                /\ src' = r.src
       /\ chunks' = chunks + 1
       /\ UNCHANGED <<torVars, sessVars, workVars, v2Vars, case, stack, result>>

\* next_token returned None and the refill returned 0 bytes.
RefillEof ==
    /\ result = Running
    /\ \E t \in {next_token(buf)} :
       /\ t.err = "none" /\ t.tok = None
       /\ src = <<>>
       /\ result' = Err("UnexpectedEof")
       /\ UNCHANGED <<torVars, sessVars, workVars, v2Vars, case, src, buf, stack, chunks>>

\* One iteration of decode's loop: next_token, then the arm its result selects.
Next ==
    \/ TokenError
    \/ TokenInt
    \/ TokenString
    \/ TokenBeginList
    \/ TokenBeginDict
    \/ TokenEndOfObj
    \/ TokenInvalid
    \/ Refill
    \/ RefillEof

Spec == Init /\ [][Next]_vars

Done == result # Running

(***************************************************************************)
(* decode() on a source that hands over all its bytes at the first refill  *)
(* (a slice, as in the tests), as a function of the bytes.                 *)
(***************************************************************************)
RECURSIVE decode_loop(_, _, _)

whole_stack(r, b, s) ==
    IF r.err # "none" THEN InvalidStructure(r.err)
    ELSE IF r.ret # None THEN Finish(r.ret[1], b)
    ELSE decode_loop(b, s, r.stack)

whole_refilled(r, st) == decode_loop(r.buf, r.src, st)

whole_arm(t, s, st) ==
    IF t.err # "none" THEN Err(t.err)
    ELSE IF t.tok = None
    THEN IF s = <<>> THEN Err("UnexpectedEof")
         ELSE whole_refilled(refill(t.buf, s, Len(s)), st)
    ELSE IF t.tok[1][1] = "Primitive" THEN whole_stack(push_value(st, t.tok[1][2]), t.buf, s)
    ELSE IF t.tok = Some(BeginList) THEN decode_loop(t.buf, s, push_list(st))
    ELSE IF t.tok = Some(BeginDict) THEN decode_loop(t.buf, s, push_dict(st))
    ELSE IF t.tok = Some(EndOfObj) THEN whole_stack(pop_container(st), t.buf, s)
    ELSE Err("InvalidSyntax")

decode_loop(b, s, st) == whole_arm(next_token(b), s, st)

DecodeWhole(bytes) == decode_loop(<<>>, bytes, <<>>)

(***************************************************************************)
(* Notions the claims are stated with.                                     *)
(***************************************************************************)
\* The bytes the source has handed over so far.
Delivered == Len(case.bytes) - Len(src)

\* 0, or an optional - followed by a non-zero digit and digits only.
CanonicalInt(p) ==
    \/ p = <<b_0>>
    \/ /\ p # <<>>
       /\ \A k \in 2..Len(p) : IsDigit(p[k])
       /\ \/ p[1] > b_0 /\ p[1] <= b_9
          \/ p[1] = b_minus /\ Len(p) >= 2 /\ p[2] # b_0

\* 0 alone, or a non-zero digit followed by digits only.
CanonicalLength(p) ==
    \/ p = <<b_0>>
    \/ /\ p # <<>>
       /\ p[1] > b_0 /\ p[1] <= b_9
       /\ \A k \in 2..Len(p) : IsDigit(p[k])

\* The number lies in the signed 64-bit range.
InI64(n) ==
    IF n.neg THEN ~MagGreater(n.mag, I64MinMag) ELSE ~MagGreater(n.mag, I64MaxMag)

\* A value holds an integer whose canonical payload is longer than 19 bytes.
RECURSIVE HasLongInt(_)
HasLongInt(v) ==
    CASE v[1] = "Int" -> Len(Decimal(v[2].neg, v[2].mag)) > 19
      [] v[1] = "String" -> FALSE
      [] v[1] = "List" -> \E k \in 1..Len(v[2]) : HasLongInt(v[2][k])
      [] v[1] = "Dictionary" -> \E k \in 1..Len(v[2]) : HasLongInt(v[2][k][2])

(***************************************************************************)
(* C1.  For every valid encoding B of a value V, decode on a source        *)
(* holding exactly B returns Ok(V).                                        *)
(* Violated: an integer of 19 digits with a sign (i64::MIN) has a payload  *)
(* of 20 bytes, which parse_int rejects as ValueTooLarge.                  *)
(***************************************************************************)
C1_DecodeReturnsValue ==
    (Done /\ case.fam = "valid") => result = Ok(case.val[1])

(***************************************************************************)
(* C2.  For every valid encoding B, decode returns the same result         *)
(* whatever way the source hands B over as refill chunks of size >= 1: it  *)
(* is the result of decode with B handed over at once.                     *)
(***************************************************************************)
C2_ChunkingInvariant ==
    (Done /\ case.fam = "valid") => result = DecodeWhole(case.bytes)

\* l i42e 2:e: e handed over one byte at a time (splits inside the integer,
\* inside the length prefix and inside the payload) and decoded.
C2_Witness ==
    /\ Done
    /\ case.fam = "valid"
    /\ case.val[1] = ListV(<<IntV(I64(FALSE, <<4, 2>>)), StringV(<<b_e, b_colon>>)>>)
    /\ chunks = Len(case.bytes)
    /\ result = Ok(case.val[1])

(***************************************************************************)
(* C3 as claimed.  For any division of the source into refill chunks,      *)
(* decode returns TrailingDataInBuffer exactly when a byte follows the     *)
(* first complete top-level object in the source, and Ok only when that    *)
(* object is the whole input.                                              *)
(***************************************************************************)
C3_TrailingIffBytesFollow ==
    (Done /\ case.fam \in {"valid", "trail"}) =>
        /\ result = Err("TrailingDataInBuffer") <=> case.fam = "trail"
        /\ result[1] = "Ok" => case.fam = "valid"

(***************************************************************************)
(* C3 amended.  decode returns TrailingDataInBuffer exactly when the       *)
(* refill chunk that brought the last byte of the first top-level object   *)
(* also brought a byte that follows it; when a chunk ends with the         *)
(* object's last byte decode returns Ok(V), whatever the source still      *)
(* holds.                                                                  *)
(***************************************************************************)
C3_TrailingIffBytesInBuffer ==
    (Done /\ case.fam \in {"valid", "trail"}) =>
        /\ result = Err("TrailingDataInBuffer") <=> Delivered > Len(Enc(case.val[1]))
        /\ case.fam = "trail" /\ Delivered = Len(Enc(case.val[1]))
              => result = Ok(case.val[1])
        /\ case.fam = "trail" => Delivered >= Len(Enc(case.val[1]))

\* A list followed by i7e, the chunk with the list's last byte reaching into i7e.
C3_Witness ==
    /\ Done
    /\ case.fam = "trail"
    /\ case.val[1][1] = "List"
    /\ chunks > 1
    /\ Delivered > Len(Enc(case.val[1]))
    /\ src # <<>>
    /\ result = Err("TrailingDataInBuffer")

(***************************************************************************)
(* C4.  For every proper prefix P of a valid encoding, decode on a source  *)
(* holding exactly P returns UnexpectedEof.                                *)
(* Violated: li-9223372036854775808e (a prefix of the list of i64::MIN)    *)
(* ends with ValueTooLarge.                                                *)
(***************************************************************************)
C4_PrefixIsUnexpectedEof ==
    (Done /\ case.fam = "prefix") => result = Err("UnexpectedEof")

(***************************************************************************)
(* C5.  i<payload>e gives an integer only when the payload is canonical,   *)
(* and every other payload within the size bound fails with InvalidSyntax. *)
(* Violated: ie and i-e decode to 0, i+1e to 1.                            *)
(***************************************************************************)
C5_IntegerSyntax ==
    (Done /\ case.fam = "int") =>
        /\ result[1] = "Ok" => CanonicalInt(case.aux)
        /\ (~CanonicalInt(case.aux) /\ Len(case.aux) <= 21)
              => result = Err("InvalidSyntax")

(***************************************************************************)
(* C6.  <prefix>:<bytes> gives a string token only when the prefix is      *)
(* canonical; a prefix with a leading zero or a byte that is no digit      *)
(* fails with InvalidSyntax; 0: gives the empty byte string.               *)
(* Violated: 4a:test decodes to the byte string test.                      *)
(***************************************************************************)
C6_LengthSyntax ==
    (Done /\ case.fam = "str") =>
        /\ (result[1] = "Ok" \/ result = Err("TrailingDataInBuffer"))
              => CanonicalLength(case.aux)
        /\ (~CanonicalLength(case.aux) /\ Len(case.aux) <= 21)
              => result = Err("InvalidSyntax")
        /\ (case.aux = <<b_0>> /\ case.val[1] = StringV(<<>>))
              => result = Ok(StringV(<<>>))

LeadingZero(p) ==
    /\ Len(p) >= 2
    /\ \/ p[1] = b_0
       \/ p[1] = b_minus /\ p[2] = b_0

C8_I64RoundTrip ==
    (Done /\ case.fam = "canon") =>
        IF InI64(case.val[1][2]) THEN result = Ok(case.val[1])
        ELSE result[1] = "Err"

(***************************************************************************)
(* C9.  In a dictionary with no pending key a pushed value must be a byte  *)
(* string and becomes the pending key; with a key pending the value is     *)
(* stored under it and the key cleared; any other value in key position    *)
(* fails with PushToDictError; closing a dictionary with a key pending     *)
(* fails with OrphanedKey; so decode returns InvalidStructure for          *)
(* di42e4:teste, d4:teste and the inputs of those two shapes.              *)
(***************************************************************************)
C9_PushRules(top, v) ==
    LET r == push_value(stack, v)
        after == r.stack[Len(r.stack)]
    IN  IF top.pending_key = None
        THEN IF IsStringV(v)
             THEN /\ r.err = "none" /\ r.ret = None
                  /\ after.pending_key = Some(v[2])
                  /\ after.items = top.items
             ELSE r.err = "PushToDictError"
        ELSE /\ r.err = "none" /\ r.ret = None
             /\ after.pending_key = None
             /\ after.items = Append(top.items, <<top.pending_key[1], v>>)

C9_DictKeyRules ==
    /\ (stack # <<>> /\ stack[Len(stack)].kind = "Dict") =>
          /\ \A v \in Atoms \cup {ListV(<<>>), DictionaryV(<<>>)} :
                C9_PushRules(stack[Len(stack)], v)
          /\ pop_container(stack).err = "OrphanedKey"
                <=> stack[Len(stack)].pending_key # None
    /\ (Done /\ case.fam = "dictkey")
          => result = InvalidStructure("PushToDictError")
    /\ (Done /\ case.fam = "orphan") => result = InvalidStructure("OrphanedKey")

\* d 1:a i0e le ... e handed over in several chunks: the list in key position.
C9_Witness ==
    /\ Done
    /\ case.fam = "dictkey"
    /\ case.val[1] = ListV(<<>>)
    /\ case.aux # <<>>
    /\ chunks > 1
    /\ stack # <<>>
    /\ stack[Len(stack)].items # <<>>
    /\ result = InvalidStructure("PushToDictError")

(***************************************************************************)
(* C10.  The payload of a string token is delimited by its declared length *)
(* only: the decoded bytes are the n octets of the payload, and octets     *)
(* equal to NUL, e, :, i, l, d or a digit are data, whatever follows the   *)
(* string and however the source is divided into chunks.                   *)
(***************************************************************************)
RECURSIVE IntFree(_)
IntFree(v) ==
    CASE v[1] = "Int" -> v[2].mag = <<>>
      [] v[1] = "String" -> TRUE
      [] v[1] = "List" -> \A k \in 1..Len(v[2]) : IntFree(v[2][k])
      [] v[1] = "Dictionary" -> \A k \in 1..Len(v[2]) : IntFree(v[2][k][2])

C10_PayloadByLength ==
    (Done /\ case.fam = "valid" /\ IntFree(case.val[1])) =>
        result = Ok(case.val[1])

\* l 3:<NUL>il i0e e handed over in several chunks.
C10_Witness ==
    /\ Done
    /\ case.fam = "valid"
    /\ case.val[1] = ListV(<<StringV(<<b_NUL, b_i, b_l>>), IntV(I64(FALSE, <<>>))>>)
    /\ chunks > 2
    /\ result = Ok(case.val[1])

(***************************************************************************)
(* value.rs: the derived PartialEq of Value.  Two values are equal when    *)
(* they are the same variant with equal fields; two Vec are equal when     *)
(* they have the same length and equal elements position by position.      *)
(***************************************************************************)
RECURSIVE Value_eq(_, _)
Value_eq(a, b) ==
    /\ a[1] = b[1]
    /\ CASE a[1] = "Int" -> a[2] = b[2]
         [] a[1] = "String" -> a[2] = b[2]
         [] a[1] = "List" ->
               /\ Len(a[2]) = Len(b[2])
               /\ \A k \in 1..Len(a[2]) : Value_eq(a[2][k], b[2][k])
         [] a[1] = "Dictionary" ->
               /\ Len(a[2]) = Len(b[2])
               /\ \A k \in 1..Len(a[2]) :
                     /\ a[2][k][1] = b[2][k][1]
                     /\ Value_eq(a[2][k][2], b[2][k][2])

(***************************************************************************)
(* decoder.rs: impl PartialEq for DecodeError.  Four pairs of kinds are    *)
(* matched; every other pair falls to the last arm.                        *)
(***************************************************************************)
DecodeError_eq(a, b) ==
    CASE a[2] = "InvalidSyntax" /\ b[2] = "InvalidSyntax" -> TRUE
      [] a[2] = "ValueTooLarge" /\ b[2] = "ValueTooLarge" -> TRUE
      [] a[2] = "Io" /\ b[2] = "Io" -> TRUE
      [] a[2] = "UnexpectedEof" /\ b[2] = "UnexpectedEof" -> TRUE
      [] OTHER -> FALSE

\* DecodeError::Io(cause)
Io(cause) == <<"Err", "Io", cause>>

\* One error of every kind, Io with two causes and InvalidStructure with
\* its two structure errors.
DecodeErrors ==
    {Err("InvalidSyntax"), Err("ValueTooLarge"), Err("UnexpectedEof"),
     Err("TrailingDataInBuffer"), Io("NotFound"), Io("Interrupted"),
     InvalidStructure("PushToDictError"), InvalidStructure("OrphanedKey")}

\* The keys of every dictionary inside v are pairwise distinct.
RECURSIVE DistinctKeys(_)
DistinctKeys(v) ==
    CASE v[1] = "List" -> \A k \in 1..Len(v[2]) : DistinctKeys(v[2][k])
      [] v[1] = "Dictionary" ->
            /\ \A j, k \in 1..Len(v[2]) : j # k => v[2][j][1] # v[2][k][1]
            /\ \A k \in 1..Len(v[2]) : DistinctKeys(v[2][k][2])
      [] OTHER -> TRUE

\* The key-to-value bindings of a dictionary.
Bindings(v) == {v[2][k] : k \in 1..Len(v[2])}

(***************************************************************************)
(* C11.  Every dictionary in a value decode returns, at any nesting level, *)
(* has pairwise distinct keys, also for inputs that write a key twice.     *)
(* Violated: d1:ai0e1:ai0ee decodes to a dictionary with the key a twice.  *)
(***************************************************************************)
C11_DistinctKeys ==
    (Done /\ result[1] = "Ok") => DistinctKeys(result[2])

(***************************************************************************)
(* C12.  Two dictionaries compare equal exactly when they hold the same    *)
(* bindings, whatever the order of the pairs: the dictionary decoded from  *)
(* keys in descending order equals the one built from the same pairs in    *)
(* sorted order.                                                           *)
(* Violated: the value decoded from d2:aei0e1:ai0ee differs from the       *)
(* dictionary built as (a, 0), (ae, 0).                                    *)
(***************************************************************************)
C12_DictEqualityIgnoresOrder ==
    (Done /\ case.fam \in {"valid", "unsorted"} /\ result[1] = "Ok"
          /\ result[2][1] = "Dictionary") =>
        /\ \A w \in Dicts1 :
              Value_eq(result[2], w) <=> Bindings(result[2]) = Bindings(w)
        /\ Value_eq(result[2], case.val[1])

(***************************************************************************)
(* C13.  Equality of decode errors is by kind only: an error returned by   *)
(* decode equals every error of its kind (itself included) and no error of *)
(* another kind, and two Io errors are equal whatever their causes.        *)
(* Violated: TrailingDataInBuffer and InvalidStructure errors are not      *)
(* equal to themselves.                                                    *)
(***************************************************************************)
C13_ErrorEqualityByKind ==
    (Done /\ result[1] = "Err") =>
        /\ DecodeError_eq(result, result)
        /\ \A e \in DecodeErrors :
              /\ DecodeError_eq(result, e) <=> result[2] = e[2]
              /\ DecodeError_eq(e, result) <=> result[2] = e[2]
        /\ \A e, f \in DecodeErrors :
              (e[2] = "Io" /\ f[2] = "Io") => DecodeError_eq(e, f)

(***************************************************************************)
(* The whole-buffer tokenizer torrent.rs reads its tokens from: next_token *)
(* at a cursor gives the token with its position (the offset at which the  *)
(* token begins; for EndObject the offset of the e itself) and the cursor  *)
(* after it.  An integer payload and a length prefix must be canonical     *)
(* decimals of at most 21 bytes.                                           *)
(***************************************************************************)
MaxTokenDigits == 21

Tok(kind, val, pos) == [kind |-> kind, val |-> val, pos |-> pos]
TokOk(tok, pos) == [err |-> "none", tok |-> tok, pos |-> pos]
TokErr(e) == [err |-> e, tok |-> None, pos |-> 0]

\* 0-based index of the first b at or after pos, or NotFound.
PositionFrom(inp, pos, b) ==
    IF \E k \in (pos + 1)..Len(inp) : inp[k] = b
    THEN (CHOOSE k \in (pos + 1)..Len(inp) :
             inp[k] = b /\ \A j \in (pos + 1)..(k - 1) : inp[j] # b) - 1
    ELSE NotFound

tk_int_value(pos, e, r) ==
    IF r.n = None THEN TokErr("ValueTooLarge")
    ELSE TokOk(Tok("Int", r.n[1], pos), e + 1)

\* i<payload>e with the e at offset e.
tk_int_at(inp, pos, e) ==
    IF e = NotFound THEN TokErr("UnfinishedInt")
    ELSE IF e - pos - 1 > MaxTokenDigits THEN TokErr("ValueTooLarge")
    ELSE IF ~CanonicalInt(Slice(inp, pos + 1, e)) THEN TokErr("InvalidSyntax")
    ELSE tk_int_value(pos, e,
             FromRadix10SignedChecked(Slice(inp, pos + 1, e), I64MaxMag, I64MinMag))

tk_string_len(inp, pos, c, len) ==
    IF Len(inp) - (c + 1) < len THEN TokErr("UnfinishedString")
    ELSE TokOk(Tok("String", Slice(inp, c + 1, c + 1 + len), pos), c + 1 + len)

\* <prefix>:<bytes> with the colon at offset c.  A prefix of more than 9
\* digits asks for more bytes than a buffer of the model holds.
tk_string_at(inp, pos, c) ==
    IF c = NotFound THEN TokErr("MissingColonInString")
    ELSE IF c - pos > MaxTokenDigits THEN TokErr("ValueTooLarge")
    ELSE IF ~CanonicalLength(Slice(inp, pos, c)) THEN TokErr("InvalidSyntax")
    ELSE IF c - pos > 9 THEN TokErr("UnfinishedString")
    ELSE tk_string_len(inp, pos, c,
             MagToNat(FromRadix10SignedChecked(Slice(inp, pos, c),
                                               USizeMaxMag, <<>>).n[1].mag))

tk_next(inp, pos) ==
    IF pos >= Len(inp) THEN TokErr("PosOutOfBounds")
    ELSE IF At(inp, pos) = b_i THEN tk_int_at(inp, pos, PositionFrom(inp, pos, b_e))
    ELSE IF IsDigit(At(inp, pos))
    THEN tk_string_at(inp, pos, PositionFrom(inp, pos, b_colon))
    ELSE IF At(inp, pos) = b_l THEN TokOk(Tok("BeginList", None, pos), pos + 1)
    ELSE IF At(inp, pos) = b_d THEN TokOk(Tok("BeginDict", None, pos), pos + 1)
    ELSE IF At(inp, pos) = b_e THEN TokOk(Tok("EndObject", None, pos), pos + 1)
    ELSE TokErr("InvalidSyntax")

(***************************************************************************)
(* torrent.rs: the keys, the descriptor and the errors.                    *)
(***************************************************************************)
k_announce == <<97, 110, 110, 111, 117, 110, 99, 101>>
k_info == <<105, 110, 102, 111>>
k_name == <<110, 97, 109, 101>>
k_piece_length == <<112, 105, 101, 99, 101, 32, 108, 101, 110, 103, 116, 104>>
k_pieces == <<112, 105, 101, 99, 101, 115>>
k_length == <<108, 101, 110, 103, 116, 104>>
k_files == <<102, 105, 108, 101, 115>>
k_path == <<112, 97, 116, 104>>

\* `n as u64` / `n as usize` of an i64: a negative n wraps to 2^64 - |n|,
\* kept as the magnitude with the mark wrapped.
AsU64(n) == [wrapped |-> n.neg, mag |-> n.mag]
U64Zero == [wrapped |-> FALSE, mag |-> <<>>]

\* make_sha1: the digest, kept as the bytes it was computed from.
make_sha1(bytes) == <<"SHA1", bytes>>
ZeroHash == <<"zeros">>

\* String::from_utf8 on the byte strings of the model: bytes below 128 are
\* text, the byte 255 never occurs in UTF-8.
Utf8Valid(s) == \A k \in 1..Len(s) : s[k] < 128

Torrent_default ==
    [announce |-> <<>>, info_hash |-> ZeroHash, name |-> <<>>,
     piece_length |-> U64Zero, pieces |-> <<>>, length |-> None, files |-> None]

\* The info field of a Torrent.
InfoOf(t) ==
    [info_hash |-> t.info_hash, name |-> t.name, piece_length |-> t.piece_length,
     pieces |-> t.pieces, length |-> t.length, files |-> t.files]

File(length, path) == [length |-> length, path |-> path]

TDecode(e) == <<"Err", "Decode", e>>
ExpectedKey(st, got) == <<"Err", "ExpectedKey", st, got>>
MissingRequiredKey(st, key) == <<"Err", "MissingRequiredKey", st, key>>
UnexpectedTypeForKey(key, expected, got) ==
    <<"Err", "UnexpectedTypeForKey", key, expected, got>>
InvalidPiecesLength(n) == <<"Err", "InvalidPiecesLength", n>>

\* Torrent::is_valid: "ok" or the error.
Torrent_is_valid(t) ==
    IF t.announce = <<>> THEN MissingRequiredKey("MetaInfo", "Announce")
    ELSE IF InfoOf(t) = InfoOf(Torrent_default)
    THEN MissingRequiredKey("MetaInfo", "Info")
    ELSE "ok"

Info_is_valid_unnamed(t) ==
    IF t.name = <<>> \/ t.piece_length = U64Zero \/ t.pieces = <<>>
    THEN MissingRequiredKey("Info", "InfoName")
    ELSE IF Len(t.pieces) % 20 # 0 THEN InvalidPiecesLength(20)
    ELSE IF t.length = None /\ t.files = None
    THEN MissingRequiredKey("Info", "InfoFiles")
    ELSE "ok"

\* Info::is_valid: "ok" or the error.
Info_is_valid(t) ==
    IF t.name = <<>> THEN MissingRequiredKey("Info", "InfoName")
    ELSE IF t.piece_length = U64Zero THEN MissingRequiredKey("Info", "InfoPieceLength")
    ELSE IF t.pieces = <<>> THEN MissingRequiredKey("Info", "InfoPieces")
    ELSE IF Len(t.pieces) % 20 # 0 THEN InvalidPiecesLength(Len(t.pieces))
    ELSE IF t.length = None /\ t.files = None
    THEN MissingRequiredKey("Info", "InfoFiles")
    ELSE "ok"

(***************************************************************************)
(* TorrentBuilder.  A builder b is its state, the tokenizer's cursor pos,  *)
(* info_begin, the torrent under construction and the result of build      *)
(* (Running until build returns).                                          *)
(***************************************************************************)
Builder(st, pos, ib, t, res) ==
    [state |-> st, pos |-> pos, info_begin |-> ib, torrent |-> t, result |-> res]

TorrentBuilder_new == Builder("Begin", 0, 0, Torrent_default, Running)

Fail(b, e) == [b EXCEPT !.result = e]

\* expect_token / expect_extract on the token t read at b.pos.
expect_token(b, t, key, expected) ==
    IF t.err # "none" THEN Fail(b, TDecode(t.err))
    ELSE IF t.tok.kind = expected THEN [b EXCEPT !.pos = t.pos]
    ELSE Fail(b, UnexpectedTypeForKey(key, expected, t.tok.kind))

RECURSIVE skip_nested_value(_, _, _)
skip_nested_token_flat(b, inp, counter, t) ==
    IF t.err # "none" THEN Fail(b, TDecode(t.err))
    ELSE skip_nested_value([b EXCEPT !.pos = t.pos], inp,
             IF t.tok.kind = "EndObject" THEN counter - 1 ELSE counter)

skip_nested_token(b, inp, counter, t) ==
    IF t.err # "none" THEN Fail(b, TDecode(t.err))
    ELSE skip_nested_value([b EXCEPT !.pos = t.pos], inp,
             IF t.tok.kind \in {"BeginList", "BeginDict"} THEN counter + 1
             ELSE IF t.tok.kind = "EndObject" THEN counter - 1
             ELSE counter)

skip_nested_value(b, inp, counter) ==
    IF counter = 0 THEN b
    ELSE skip_nested_token(b, inp, counter, tk_next(inp, b.pos))

skip_value_token(b, inp, t) ==
    IF t.err # "none" THEN Fail(b, TDecode(t.err))
    ELSE IF t.tok.kind \in {"Int", "String"} THEN [b EXCEPT !.pos = t.pos]
    ELSE IF t.tok.kind = "EndObject" THEN Fail(b, Err("UnexpectedObjectClosure"))
    ELSE skip_nested_value([b EXCEPT !.pos = t.pos], inp, 1)

skip_shallow_token(b, t) ==
    IF t.err # "none" THEN Fail(b, TDecode(t.err))
    ELSE IF t.tok.kind = "EndObject" THEN Fail(b, Err("UnexpectedObjectClosure"))
    ELSE [b EXCEPT !.pos = t.pos]

skip_value_shallow(b, inp) == skip_shallow_token(b, tk_next(inp, b.pos))

skip_value(b, inp) == skip_value_token(b, inp, tk_next(inp, b.pos))

text_field(r, t, field) ==
    IF r.result # Running THEN r
    ELSE IF ~Utf8Valid(t.tok.val) THEN Fail(r, Err("Utf8"))
    ELSE [r EXCEPT !.torrent[field] = t.tok.val]

handle_announce(b, t) ==
    text_field(expect_token(b, t, "Announce", "String"), t, "announce")

handle_name(b, t) ==
    text_field(expect_token(b, t, "InfoName", "String"), t, "name")

piece_length_field(r, t) ==
    IF r.result # Running THEN r
    ELSE [r EXCEPT !.torrent.piece_length = AsU64(t.tok.val)]

handle_piece_length(b, t) ==
    piece_length_field(expect_token(b, t, "InfoLength", "Int"), t)

pieces_field(r, t) ==
    IF r.result # Running THEN r
    ELSE [r EXCEPT !.torrent.pieces = t.tok.val]

handle_pieces(b, t) ==
    pieces_field(expect_token(b, t, "InfoPieces", "String"), t)

length_field(r, t) ==
    IF r.result # Running THEN r
    ELSE [r EXCEPT !.torrent.length = Some(AsU64(t.tok.val))]

handle_length(b, t) ==
    length_field(expect_token(b, t, "InfoLength", "Int"), t)

info_begin_field(r, t) ==
    IF r.result # Running THEN r
    ELSE [r EXCEPT !.info_begin = t.tok.pos]

handle_meta_keys(b, inp, key) ==
    IF key = k_announce THEN handle_announce(b, tk_next(inp, b.pos))
    ELSE IF key = k_info
    THEN info_begin_field(expect_token([b EXCEPT !.state = "Info"],
                                       tk_next(inp, b.pos), "Info", "BeginDict"),
                          tk_next(inp, b.pos))
    ELSE skip_value(b, inp)

get_info_slice_exclusive(inp, ib, end_pos) == Slice(inp, ib, end_pos)

get_info_slice(inp, ib, end_pos) == Slice(inp, ib, end_pos + 1)

handle_info_keys_unguarded(b, inp, key) ==
    IF key = k_name THEN handle_name(b, tk_next(inp, b.pos))
    ELSE IF key = k_piece_length THEN handle_piece_length(b, tk_next(inp, b.pos))
    ELSE IF key = k_pieces THEN handle_pieces(b, tk_next(inp, b.pos))
    ELSE IF key = k_length THEN handle_length(b, tk_next(inp, b.pos))
    ELSE IF key = k_files
    THEN expect_token([b EXCEPT !.state = "Files"], tk_next(inp, b.pos),
                      "InfoFiles", "BeginList")
    ELSE skip_value(b, inp)

handle_info_keys(b, inp, key) ==
    IF key = k_name THEN handle_name(b, tk_next(inp, b.pos))
    ELSE IF key = k_piece_length THEN handle_piece_length(b, tk_next(inp, b.pos))
    ELSE IF key = k_pieces THEN handle_pieces(b, tk_next(inp, b.pos))
    ELSE IF key = k_length
    THEN IF b.torrent.files # None THEN Fail(b, Err("MutualExclusiveKeys"))
         ELSE handle_length(b, tk_next(inp, b.pos))
    ELSE IF key = k_files
    THEN IF b.torrent.length # None THEN Fail(b, Err("MutualExclusiveKeys"))
         ELSE expect_token([b EXCEPT !.state = "Files"], tk_next(inp, b.pos),
                           "InfoFiles", "BeginList")
    ELSE skip_value(b, inp)

\* files.last_mut(): the last file is changed in place, a file is pushed
\* only onto an empty list.
file_length_field(r, t) ==
    IF r.result # Running THEN r
    ELSE IF r.torrent.files[1] = <<>>
    THEN [r EXCEPT !.torrent.files = Some(<<File(AsU64(t.tok.val), <<>>)>>)]
    ELSE [r EXCEPT !.torrent.files[1][Len(r.torrent.files[1])].length =
                       AsU64(t.tok.val)]

handle_file_length(b, t) ==
    file_length_field(expect_token(b, t, "FilesLength", "Int"), t)

handle_file_path(b, val) ==
    IF ~Utf8Valid(val) THEN Fail(b, Err("Utf8"))
    ELSE IF b.torrent.files[1] = <<>>
    THEN [b EXCEPT !.torrent.files = Some(<<File(U64Zero, <<val>>)>>)]
    ELSE [b EXCEPT !.torrent.files[1][Len(b.torrent.files[1])].path =
                       Append(@, val)]

handle_file_keys(b, inp, key) ==
    IF key = k_length THEN handle_file_length(b, tk_next(inp, b.pos))
    ELSE IF key = k_path
    THEN expect_token([b EXCEPT !.state = "SingularFilePath"],
                      tk_next(inp, b.pos), "FilesPath", "BeginList")
    ELSE skip_value(b, inp)

\* The arms of the loop of build, each on the token t read at b.pos.
build_Begin(b, t) ==
    IF t.err # "none" THEN Fail(b, TDecode(t.err))
    ELSE IF t.tok.kind = "BeginDict"
    THEN [b EXCEPT !.state = "MetaInfo", !.pos = t.pos]
    ELSE Fail(b, Err("MissingMetaInfoOpener"))

build_MetaInfo(b, inp, t) ==
    IF t.err # "none" THEN Fail(b, TDecode(t.err))
    ELSE IF t.tok.kind = "String"
    THEN handle_meta_keys([b EXCEPT !.pos = t.pos], inp, t.tok.val)
    ELSE IF t.tok.kind = "EndObject"
    THEN [b EXCEPT !.state = "Finished", !.pos = t.pos]
    ELSE Fail(b, ExpectedKey("MetaInfo", t.tok.kind))

info_closed_unchecked(b) == [b EXCEPT !.state = "MetaInfo"]

info_closed(b) ==
    IF Info_is_valid(b.torrent) # "ok" THEN Fail(b, Info_is_valid(b.torrent))
    ELSE [b EXCEPT !.state = "MetaInfo"]

build_Info(b, inp, t) ==
    IF t.err # "none" THEN Fail(b, TDecode(t.err))
    ELSE IF t.tok.kind = "String"
    THEN handle_info_keys([b EXCEPT !.pos = t.pos], inp, t.tok.val)
    ELSE IF t.tok.kind = "EndObject"
    THEN info_closed([b EXCEPT !.pos = t.pos,
                               !.torrent.info_hash =
                                   make_sha1(get_info_slice(inp, b.info_begin,
                                                            t.tok.pos))])
    ELSE Fail(b, ExpectedKey("Info", t.tok.kind))

files_or_empty(b) ==
    [b EXCEPT !.torrent.files = IF @ = None THEN Some(<<>>) ELSE @]

build_Files(b, t) ==
    IF t.err # "none" THEN Fail(files_or_empty(b), TDecode(t.err))
    ELSE IF t.tok.kind = "BeginDict"
    THEN [files_or_empty(b) EXCEPT !.state = "SingularFile", !.pos = t.pos]
    ELSE IF t.tok.kind = "EndObject"
    THEN [files_or_empty(b) EXCEPT !.state = "Info", !.pos = t.pos]
    ELSE Fail(files_or_empty(b), ExpectedKey("Files", t.tok.kind))

build_SingularFile(b, inp, t) ==
    IF t.err # "none" THEN Fail(b, TDecode(t.err))
    ELSE IF t.tok.kind = "String"
    THEN handle_file_keys([b EXCEPT !.pos = t.pos], inp, t.tok.val)
    ELSE IF t.tok.kind = "EndObject"
    THEN [b EXCEPT !.state = "Files", !.pos = t.pos]
    ELSE Fail(b, ExpectedKey("SingularFile", t.tok.kind))

build_SingularFilePath_to_Files(b, t) ==
    IF t.err # "none" THEN Fail(b, TDecode(t.err))
    ELSE IF t.tok.kind = "String"
    THEN handle_file_path([b EXCEPT !.pos = t.pos], t.tok.val)
    ELSE IF t.tok.kind = "EndObject"
    THEN [b EXCEPT !.state = "Files", !.pos = t.pos]
    ELSE [b EXCEPT !.pos = t.pos]

build_SingularFilePath(b, t) ==
    IF t.err # "none" THEN Fail(b, TDecode(t.err))
    ELSE IF t.tok.kind = "String"
    THEN handle_file_path([b EXCEPT !.pos = t.pos], t.tok.val)
    ELSE IF t.tok.kind = "EndObject"
    THEN [b EXCEPT !.state = "SingularFile", !.pos = t.pos]
    ELSE Fail(b, UnexpectedTypeForKey("FilesPath", "String", t.tok.kind))

build_Finished(b) ==
    IF Torrent_is_valid(b.torrent) # "ok" THEN Fail(b, Torrent_is_valid(b.torrent))
    ELSE [b EXCEPT !.result = Ok(b.torrent)]

\* One turn of the loop.
build_step(b, inp) ==
    IF b.state = "Finished" THEN build_Finished(b)
    ELSE IF b.state = "Begin" THEN build_Begin(b, tk_next(inp, b.pos))
    ELSE IF b.state = "MetaInfo" THEN build_MetaInfo(b, inp, tk_next(inp, b.pos))
    ELSE IF b.state = "Info" THEN build_Info(b, inp, tk_next(inp, b.pos))
    ELSE IF b.state = "Files" THEN build_Files(b, tk_next(inp, b.pos))
    ELSE IF b.state = "SingularFile"
    THEN build_SingularFile(b, inp, tk_next(inp, b.pos))
    ELSE build_SingularFilePath(b, tk_next(inp, b.pos))

RECURSIVE build_from(_, _)
build_from(b, inp) ==
    IF b.result # Running THEN b ELSE build_from(build_step(b, inp), inp)

\* Torrent::from_bytes.
from_bytes(inp) == build_from(TorrentBuilder_new, inp).result

(***************************************************************************)
(* Torrent buffers.  A buffer is put together from the encodings of its    *)
(* items (a key followed by its value), so that the place of the info      *)
(* dictionary in it is known from its construction.                        *)
(***************************************************************************)
MaxFiles == 2
MaxNest == 3

BStr(s) == Enc(StringV(s))
BInt(n) == <<b_i>> \o NatDecimal(n) \o <<b_e>>
BList(items) == <<b_l>> \o Concat(items) \o <<b_e>>
BDict(items) == <<b_d>> \o Concat(items) \o <<b_e>>
KV(k, v) == BStr(k) \o v

InsertAt(seq, k, x) == SubSeq(seq, 1, k) \o <<x>> \o SubSeq(seq, k + 1, Len(seq))
RemoveAt(seq, k) == SubSeq(seq, 1, k - 1) \o SubSeq(seq, k + 1, Len(seq))
Perms(seq) ==
    {[k \in 1..Len(seq) |-> seq[p[k]]] :
        p \in {q \in [1..Len(seq) -> 1..Len(seq)] :
                  \A i, j \in 1..Len(seq) : q[i] = q[j] => i = j}}

Bytes(n) == [k \in 1..n |-> b_a]

I_announce == KV(k_announce, BStr(<<b_a, b_e>>))
I_name == KV(k_name, BStr(<<b_a>>))
I_piece_length == KV(k_piece_length, BInt(4))
I_pieces(n) == KV(k_pieces, BStr(Bytes(n)))
I_length == KV(k_length, BInt(5))
I_files(fl) == KV(k_files, BList(fl))
F_length == KV(k_length, BInt(2))
F_path == KV(k_path, BList(<<BStr(<<b_a>>), BStr(<<b_e>>)>>))

\* The buffer d <pre> 4:info d <info items> e <post> e.
TCase(fam, pre, info, post, aux, want) ==
    [fam |-> fam,
     bytes |-> <<b_d>> \o Concat(pre) \o BStr(k_info) \o BDict(info)
                       \o Concat(post) \o <<b_e>>,
     ioff |-> 1 + Len(Concat(pre)) + Len(BStr(k_info)),
     ilen |-> Len(BDict(info)),
     aux |-> aux, want |-> want]

RawCase(fam, bytes, aux, want) ==
    [fam |-> fam, bytes |-> bytes, ioff |-> 0, ilen |-> 0, aux |-> aux,
     want |-> want]

\* The root with announce before or after info.
RootOrders == {1, 2}
Pre(o) == IF o = 1 THEN <<I_announce>> ELSE <<>>
Post(o) == IF o = 1 THEN <<>> ELSE <<I_announce>>
Plain(fam, o, info, aux, want) == TCase(fam, Pre(o), info, Post(o), aux, want)

FileItems == {<<F_length, F_path>>, <<F_path, F_length>>}
FileListsOf(dicts) ==
    UNION {[1..n -> dicts] : n \in 0..MaxFiles}
FileLists == FileListsOf({BDict(f) : f \in FileItems})

SingleInfo == <<I_name, I_piece_length, I_pieces(20), I_length>>
MultiInfo(fl) == <<I_name, I_piece_length, I_pieces(20), I_files(fl)>>

BaseInfos ==
    Perms(SingleInfo) \cup Perms(MultiInfo(<<BDict(<<F_length, F_path>>)>>))
        \cup {MultiInfo(fl) : fl \in FileLists}
        \cup {<<I_name, I_piece_length, I_pieces(40), I_length>>}

BaseCases ==
    {Plain("base", o, info, <<>>, <<>>) : o \in RootOrders, info \in BaseInfos}

\* Values of unknown keys: primitives and containers nested to MaxNest,
\* with keys that are recognised elsewhere.
RECURSIVE NestedList(_)
NestedList(n) == IF n = 0 THEN BInt(7) ELSE BList(<<NestedList(n - 1)>>)

RECURSIVE NestedDict(_)
NestedDict(n) ==
    IF n = 0 THEN BStr(<<b_a>>) ELSE BDict(<<KV(k_info, NestedDict(n - 1))>>)

UnknownValues ==
    {NestedList(n) : n \in 0..MaxNest} \cup {NestedDict(n) : n \in 0..MaxNest}
        \cup {BList(<<>>), BDict(<<>>),
              BList(<<BDict(<<>>), BList(<<>>), BInt(7)>>),
              BDict(<<KV(k_name, BStr(<<b_e>>)),
                      KV(k_files, BList(<<BDict(<<F_length>>)>>))>>)}

k_x == <<120>>
UnknownRootKeys == {k_x, k_name, k_files}
UnknownInfoKeys == {k_x, k_info, k_path}
UnknownFileKeys == {k_x, k_name, k_info}

Unknowns(keys) == {KV(k, v) : k \in keys, v \in UnknownValues}

\* Up to MaxFiles file dictionaries with the same order of keys.
UnknownFileLists ==
    {[i \in 1..n |-> f] : n \in 0..MaxFiles, f \in FileItems}
FilesOf(fl) == [i \in 1..Len(fl) |-> BDict(fl[i])]
UnknownBaseInfos ==
    {SingleInfo} \cup {MultiInfo(FilesOf(fl)) : fl \in UnknownFileLists}

\* The unknown item u at the root, before or after whatever is there.
UnknownRootCases ==
    UNION {{TCase("unknown_root", InsertAt(Pre(o), k, u), info, Post(o),
                  Plain("base", o, info, <<>>, <<>>).bytes, <<>>) :
               k \in 0..Len(Pre(o)), info \in UnknownBaseInfos,
               u \in Unknowns(UnknownRootKeys)}
           \cup
           {TCase("unknown_root", Pre(o), info, InsertAt(Post(o), k, u),
                  Plain("base", o, info, <<>>, <<>>).bytes, <<>>) :
               k \in 0..Len(Post(o)), info \in UnknownBaseInfos,
               u \in Unknowns(UnknownRootKeys)} :
           o \in RootOrders}

UnknownInfoCases ==
    {Plain("unknown_info", o, InsertAt(info, k, u),
           Plain("base", o, info, <<>>, <<>>).bytes, <<>>) :
        o \in RootOrders, k \in 0..4, info \in UnknownBaseInfos,
        u \in Unknowns(UnknownInfoKeys)}

\* The unknown item u in the j-th file dictionary.
WithFileItem(fl, j, k, u) ==
    [i \in 1..Len(fl) |-> BDict(IF i = j THEN InsertAt(fl[i], k, u) ELSE fl[i])]

UnknownFileCases ==
    UNION {{Plain("unknown_file", o, MultiInfo(WithFileItem(fl, j, k, u)),
                  Plain("base", o, MultiInfo(FilesOf(fl)), <<>>, <<>>).bytes, <<>>) :
               o \in RootOrders, j \in 1..Len(fl), k \in 0..2,
               u \in Unknowns(UnknownFileKeys)} :
           fl \in UnknownFileLists}

\* Info dictionaries with both length and files, in either order, around
\* and between the other keys, the files list holding any file dictionaries.
AnyFileDicts ==
    {BDict(<<>>), BDict(<<F_length>>), BDict(<<F_path>>),
     BDict(<<F_length, F_path>>),
     BDict(<<F_path, F_length, KV(k_x, BList(<<BDict(<<>>)>>))>>)}

BothInfos(fl) ==
    {<<I_name, I_piece_length, I_pieces(20), I_length, I_files(fl)>>,
     <<I_name, I_piece_length, I_pieces(20), I_files(fl), I_length>>,
     <<I_length, I_name, I_files(fl), I_piece_length, I_pieces(20)>>,
     <<I_files(fl), I_name, I_piece_length, I_length, I_pieces(20)>>,
     <<I_length, I_files(fl)>>,
     <<I_files(fl), I_length>>}

BothCases ==
    UNION {{Plain("both", o, info, <<>>, <<>>) :
               o \in RootOrders, info \in BothInfos(fl)} :
           fl \in FileListsOf(AnyFileDicts)}

\* The items of seq at the places in keep.
RECURSIVE Pick(_, _, _)
Pick(seq, keep, k) ==
    IF k > Len(seq) THEN <<>>
    ELSE (IF k \in keep THEN <<seq[k]>> ELSE <<>>) \o Pick(seq, keep, k + 1)

\* The key Info::is_valid names for the k-th item of SingleInfo.
InfoKeyNames(k) ==
    IF k = 1 THEN {"InfoName"}
    ELSE IF k = 2 THEN {"InfoPieceLength"}
    ELSE IF k = 3 THEN {"InfoPieces"}
    ELSE {"InfoLength", "InfoFiles"}

\* Torrents that lack required keys, and pieces of a wrong length; want is
\* the set of the failures that name what is missing.
MissingInfoCases ==
    {Plain("missing", o, Pick(SingleInfo, keep, 1), <<>>,
           {MissingRequiredKey("Info", n) :
               n \in UNION {InfoKeyNames(k) : k \in (1..4) \ keep}}) :
        o \in RootOrders, keep \in (SUBSET (1..4)) \ {1..4}}

MissingRootCases ==
    {TCase("missing", <<>>, info, <<>>, <<>>,
           {MissingRequiredKey("MetaInfo", "Announce")}) : info \in BaseInfos}
    \cup {RawCase("missing", BDict(<<I_announce>> \o pre), <<>>,
                  {MissingRequiredKey("MetaInfo", "Info")}) :
             pre \in {<<>>, <<KV(k_x, BDict(<<KV(k_info, BDict(SingleInfo))>>))>>}}

PiecesCases ==
    {Plain("pieces", o, <<I_name, I_piece_length, I_pieces(n), I_length>>, n,
           {InvalidPiecesLength(n)}) :
        o \in RootOrders, n \in {1, 19, 21, 39}}

\* Keys given again, with values that are empty, zero, negative or of the
\* wrong type, and a second info dictionary.
BNeg == <<b_i, b_minus, b_0 + 1, b_e>>
AltInfoItems ==
    {KV(k_name, BStr(<<>>)), KV(k_name, BStr(<<b_e>>)), KV(k_name, BInt(1)),
     KV(k_piece_length, BInt(0)), KV(k_piece_length, BNeg),
     KV(k_pieces, BStr(<<>>)), KV(k_pieces, BStr(Bytes(19))),
     KV(k_pieces, BStr(Bytes(40))), KV(k_pieces, BList(<<>>)),
     I_length, KV(k_length, BNeg), KV(k_length, BInt(0)), I_files(<<>>),
     I_files(<<BDict(<<F_path>>)>>)}

RepeatInfoCases ==
    UNION {{Plain("repeat", o, InsertAt(Pick(info, keep, 1), k, a), <<>>, {}) :
               o \in RootOrders, a \in AltInfoItems,
               info \in {SingleInfo, MultiInfo(<<BDict(<<F_length, F_path>>)>>)},
               k \in 0..Cardinality(keep)} :
           keep \in {S \in SUBSET (1..4) : Cardinality(S) >= 3}}

AltRootItems ==
    {KV(k_announce, BStr(<<>>)), KV(k_announce, BStr(<<b_a>>)),
     KV(k_announce, BInt(1)), KV(k_info, BInt(1)), KV(k_info, BDict(<<>>)),
     KV(k_info, BDict(<<KV(k_name, BStr(<<>>))>>)),
     KV(k_info, BDict(<<KV(k_pieces, BStr(Bytes(19)))>>)),
     KV(k_info, BDict(<<KV(k_piece_length, BInt(0))>>)),
     KV(k_info, BDict(<<I_files(<<>>)>>)),
     KV(k_info, BDict(<<I_length>>)),
     KV(k_info, BDict(MultiInfo(<<>>)))}

RepeatRootCases ==
    UNION {{TCase("repeat", InsertAt(Pre(o), k, a), info, Post(o), <<>>, {}) :
               k \in 0..Len(Pre(o)), a \in AltRootItems,
               info \in {SingleInfo, MultiInfo(<<>>)}}
           \cup
           {TCase("repeat", Pre(o), info, InsertAt(Post(o), k, a), <<>>, {}) :
               k \in 0..Len(Post(o)), a \in AltRootItems,
               info \in {SingleInfo, MultiInfo(<<>>)}} :
           o \in RootOrders}

\* Buffers that are no torrents: a torrent cut short, another root.
Torrent1 == Plain("base", 1, MultiInfo(<<BDict(<<F_length, F_path>>)>>), <<>>, {})
MalformedCases ==
    {RawCase("malformed", SubSeq(Torrent1.bytes, 1, n), <<>>, {}) :
        n \in 0..(Len(Torrent1.bytes) - 1)}
    \cup {RawCase("malformed", x, <<>>, {}) :
             x \in {BList(<<>>), BInt(1), <<b_e>>, BStr(k_info),
                    Torrent1.bytes \o <<b_e>>,
                    BDict(<<BInt(1), I_announce>>),
                    BDict(<<I_announce, BStr(k_info), <<b_e>>>>)}}

\* A token of a kind the state it arrives in does not take: where a key is
\* due, in the files list, in a path list, and after the keys info, files
\* and path.
BadTokens == {BInt(1), BStr(<<b_a>>), BList(<<>>), BDict(<<>>)}
BadKeys == BadTokens \ {BStr(<<b_a>>)}
BadTokenInfos ==
    {InsertAt(SingleInfo, k, x) : k \in 0..4, x \in BadKeys}
    \cup {MultiInfo(fl) :
             fl \in {<<x>> : x \in BadTokens \ {BDict(<<>>)}}
                 \cup {<<BDict(<<F_length, F_path>>), x>> :
                          x \in BadTokens \ {BDict(<<>>)}}
                 \cup {<<BDict(InsertAt(<<F_length, F_path>>, k, x))>> :
                          k \in 0..2, x \in BadKeys}
                 \cup {<<BDict(<<F_length,
                                 KV(k_path, BList(<<BStr(<<b_a>>), x>>))>>)>> :
                          x \in BadKeys}
                 \cup {<<BDict(<<KV(k_path, x)>>)>> :
                          x \in {BInt(1), BDict(<<>>), BStr(<<b_a>>)}}}
    \cup {<<I_name, KV(k_files, x)>> : x \in {BInt(1), BDict(<<>>), BStr(<<b_a>>)}}

BadTokenCases ==
    {Plain("badtoken", o, info, <<>>, {}) : o \in RootOrders, info \in BadTokenInfos}
    \cup {TCase("badtoken", <<x>>, SingleInfo, <<I_announce>>, <<>>, {}) :
             x \in BadKeys}
    \cup {TCase("badtoken", <<>>, SingleInfo, <<I_announce, x>>, <<>>, {}) :
             x \in BadKeys}
    \cup {RawCase("badtoken", x, <<>>, {}) :
             x \in {BInt(1), BStr(<<b_a>>), BList(<<>>), <<b_e>>}}
    \cup {RawCase("badtoken", BDict(<<I_announce, KV(k_info, x)>>), <<>>, {}) :
             x \in {BInt(1), BList(<<>>), BStr(<<b_a>>)}}

\* Multi-file torrents whose files differ: the i-th has length i and the
\* path <digit i>/a; aux is the list of files the buffer describes.
FileN(i, ord) ==
    BDict(IF ord = 1
          THEN <<KV(k_length, BInt(i)),
                 KV(k_path, BList(<<BStr(<<b_0 + i>>), BStr(<<b_a>>)>>))>>
          ELSE <<KV(k_path, BList(<<BStr(<<b_0 + i>>), BStr(<<b_a>>)>>)),
                 KV(k_length, BInt(i))>>)

MultiCases ==
    {Plain("multi", o, MultiInfo([i \in 1..n |-> FileN(i, ord)]),
           [i \in 1..n |-> File([wrapped |-> FALSE, mag |-> <<i>>],
                                <<(<<b_0 + i>>), (<<b_a>>)>>)], {}) :
        o \in RootOrders, n \in 1..MaxFiles, ord \in {1, 2}}

\* A recognised key followed by a token of a kind it does not take; aux is
\* the key, want the failure that names the key, the kind it takes and the
\* kind found.  The buffer ends with the token.
TokenKinds == {"Int", "String", "BeginList", "BeginDict", "EndObject"}
OfKind(kind) ==
    IF kind = "Int" THEN BInt(1)
    ELSE IF kind = "String" THEN BStr(<<b_a>>)
    ELSE IF kind = "BeginList" THEN BList(<<>>)
    ELSE IF kind = "BeginDict" THEN BDict(<<>>)
    ELSE <<b_e>>

\* Where a key is recognised: the bytes up to it, its name and the kind
\* its value has.
KeySite(upto, key, name, expected) ==
    [upto |-> upto, key |-> key, name |-> name, expected |-> expected]
InInfo == <<b_d>> \o BStr(k_info) \o <<b_d>>
InFile == InInfo \o BStr(k_files) \o <<b_l, b_d>>
KeySites ==
    {KeySite(<<b_d>>, k_announce, "Announce", "String"),
     KeySite(<<b_d>>, k_info, "Info", "BeginDict"),
     KeySite(InInfo, k_name, "InfoName", "String"),
     KeySite(InInfo, k_piece_length, "InfoPieceLength", "Int"),
     KeySite(InInfo, k_pieces, "InfoPieces", "String"),
     KeySite(InInfo, k_length, "InfoLength", "Int"),
     KeySite(InInfo, k_files, "InfoFiles", "BeginList"),
     KeySite(InFile, k_length, "FilesLength", "Int"),
     KeySite(InFile, k_path, "FilesPath", "BeginList")}

WrongTypeCases ==
    UNION {{RawCase("wrongtype", ks.upto \o BStr(ks.key) \o OfKind(got), ks.name,
                    {UnexpectedTypeForKey(ks.name, ks.expected, got)}) :
               got \in TokenKinds \ {ks.expected}} : ks \in KeySites}

\* An unknown key followed by the e that closes the dictionary it is in.
SkipCloseCases ==
    {RawCase("skipclose", upto \o BStr(k_x) \o <<b_e>>, <<>>, {}) :
        upto \in {<<b_d>>, InInfo, InFile}}

TorrentCases ==
    MultiCases \cup WrongTypeCases \cup SkipCloseCases \cup BaseCases \cup UnknownRootCases \cup UnknownInfoCases \cup UnknownFileCases
        \cup BothCases \cup MissingInfoCases \cup MissingRootCases
        \cup PiecesCases \cup RepeatInfoCases \cup RepeatRootCases
        \cup MalformedCases \cup BadTokenCases

(***************************************************************************)
(* Torrent::from_bytes as a state machine: one action for each arm of the  *)
(* loop of build.                                                          *)
(***************************************************************************)
TorrentInit ==
    /\ tcase \in TorrentCases
    /\ dec_pos = TorrentBuilder_new.pos
    /\ state = TorrentBuilder_new.state
    /\ info_begin = TorrentBuilder_new.info_begin
    /\ torrent = TorrentBuilder_new.torrent
    /\ built = TorrentBuilder_new.result
    /\ DecoderIdle
    /\ SessionIdle
    /\ WorkerIdle
    /\ V2Idle

Cur == Builder(state, dec_pos, info_begin, torrent, built)

Becomes(b) ==
    /\ state' = b.state
    /\ dec_pos' = b.pos
    /\ info_begin' = b.info_begin
    /\ torrent' = b.torrent
    /\ built' = b.result
    /\ UNCHANGED <<tcase, decVars, sessVars, workVars, v2Vars>>

BuildBegin ==
    /\ built = Running
    /\ state = "Begin"
    /\ Becomes(build_Begin(Cur, tk_next(tcase.bytes, dec_pos)))

BuildMetaInfo ==
    /\ built = Running
    /\ state = "MetaInfo"
    /\ Becomes(build_MetaInfo(Cur, tcase.bytes, tk_next(tcase.bytes, dec_pos)))

BuildInfo ==
    /\ built = Running
    /\ state = "Info"
    /\ Becomes(build_Info(Cur, tcase.bytes, tk_next(tcase.bytes, dec_pos)))

BuildFiles ==
    /\ built = Running
    /\ state = "Files"
    /\ Becomes(build_Files(Cur, tk_next(tcase.bytes, dec_pos)))

BuildSingularFile ==
    /\ built = Running
    /\ state = "SingularFile"
    /\ Becomes(build_SingularFile(Cur, tcase.bytes, tk_next(tcase.bytes, dec_pos)))

BuildSingularFilePath ==
    /\ built = Running
    /\ state = "SingularFilePath"
    /\ Becomes(build_SingularFilePath(Cur, tk_next(tcase.bytes, dec_pos)))

BuildFinished ==
    /\ built = Running
    /\ state = "Finished"
    /\ Becomes(build_Finished(Cur))

TorrentNext ==
    \/ BuildBegin
    \/ BuildMetaInfo
    \/ BuildInfo
    \/ BuildFiles
    \/ BuildSingularFile
    \/ BuildSingularFilePath
    \/ BuildFinished

TorrentSpec == TorrentInit /\ [][TorrentNext]_vars

Built == built # Running /\ built # <<"Idle">>

\* The buffers that are torrents: every required key once, with a value
\* of its type, and possibly an unknown key.
WellFormed ==
    tcase.fam \in {"base", "unknown_root", "unknown_info", "unknown_file"}

\* The bytes of the info dictionary, from its d to its e, by the
\* construction of the buffer.
InfoBytes == Slice(tcase.bytes, tcase.ioff, tcase.ioff + tcase.ilen)

\* C14: for a well-formed torrent buffer T the build returns a Torrent
\* whose info_hash is the digest of exactly T[info_begin ..= info_end], from
\* the d that opens the value of the top-level info key to the e that
\* closes that dictionary, also when lists or dictionaries nested in the
\* info dictionary (the files list, values of unknown keys) close earlier.
C14_InfoHashRange ==
    (WellFormed /\ Built) =>
        /\ built[1] = "Ok"
        /\ info_begin = tcase.ioff
        /\ At(tcase.bytes, info_begin) = b_d
        /\ built[2].info_hash = make_sha1(InfoBytes)

C14_Witness ==
    /\ Built
    /\ tcase.fam = "unknown_info"
    /\ built[1] = "Ok"
    /\ built[2].files # None /\ built[2].files[1] # <<>>
    /\ built[2].info_hash = make_sha1(InfoBytes)
    /\ \E k \in (tcase.ioff + 1)..(tcase.ioff + tcase.ilen - 2) :
           At(tcase.bytes, k) = b_e

\* The descriptor without the info_hash.
Described(t) ==
    [announce |-> t.announce, name |-> t.name, piece_length |-> t.piece_length,
     pieces |-> t.pieces, length |-> t.length, files |-> t.files]

\* C15: an unknown key with any value (a primitive, or lists and
\* dictionaries nested in each other) is skipped without effect: added at
\* the root, before or after info, the build succeeds with the same Torrent
\* as without the key, info_hash included; added inside info or inside a
\* file dictionary the build succeeds with the same announce, name,
\* piece_length, pieces, length and files.
C15_UnknownKeysSkipped ==
    (Built /\ tcase.fam \in {"unknown_root", "unknown_info", "unknown_file"}) =>
        /\ from_bytes(tcase.aux)[1] = "Ok"
        /\ built[1] = "Ok"
        /\ Described(built[2]) = Described(from_bytes(tcase.aux)[2])
        /\ tcase.fam = "unknown_root" => built[2] = from_bytes(tcase.aux)[2]

C15_Witness ==
    /\ Built
    /\ tcase.fam = "unknown_file"
    /\ Len(tcase.bytes) > Len(tcase.aux) + 8
    /\ built[1] = "Ok"
    /\ Described(built[2]) = Described(from_bytes(tcase.aux)[2])
    /\ built[2].info_hash # from_bytes(tcase.aux)[2].info_hash

C17_OkIsValid ==
    (Built /\ built[1] = "Ok") =>
        /\ built[2].announce # <<>>
        /\ built[2].name # <<>>
        /\ built[2].piece_length # U64Zero
        /\ built[2].pieces # <<>>
        /\ Len(built[2].pieces) % 20 = 0
        /\ (built[2].length = None) # (built[2].files = None)

C17_Witness ==
    /\ Built
    /\ tcase.fam = "repeat"
    /\ built[1] = "Ok"
    /\ built[2].piece_length.wrapped
    /\ Len(built[2].pieces) = 20

\* C18: validation failures are reported by kind: a root dictionary
\* without announce or without info fails with MissingRequiredKey of state
\* MetaInfo, an info dictionary closed without name, piece length, pieces,
\* or without both length and files fails with MissingRequiredKey of state
\* Info, the key in each case being one that is missing; non-empty pieces of
\* a length n not divisible by 20 fail with InvalidPiecesLength(n).
C18_FailureKinds ==
    (Built /\ tcase.fam \in {"missing", "pieces"}) => built \in tcase.want

C18_Witness ==
    /\ Built
    /\ tcase.fam = "pieces"
    /\ tcase.aux = 19
    /\ built = InvalidPiecesLength(19)

(***************************************************************************)
(* sessions: the routing table and the dispatch task, of session.rs        *)
(* (events on a channel) and of client.rs (add_downloader and a channel of *)
(* connections).  routes is the HashMap as its set of <<key, sink>>        *)
(* entries; handled records each event the program has dealt with and how. *)
(***************************************************************************)
MaxEvents == 4
ChannelCapacity == 1024
InfoHashLen == 20

\* Two infohashes, as labels for 20-byte arrays.
InfoHashes == {"h1", "h2"}

HashMap_contains_key(map, key) == \E p \in map : p[1] = key
HashMap_get(map, key) ==
    IF HashMap_contains_key(map, key)
    THEN Some((CHOOSE p \in map : p[1] = key)[2])
    ELSE None
HashMap_insert(map, key, value) ==
    {p \in map : p[1] # key} \cup {<<key, value>>}
HashMap_remove(map, key) == {p \in map : p[1] # key}

NewConn(id, hs, key) == [kind |-> "NewConn", id |-> id, hs |-> hs, key |-> key]
RegisterWorker(key, tx) == [kind |-> "RegisterWorker", key |-> key, tx |-> tx]
UnregisterWorker(key) == [kind |-> "UnregisterWorker", key |-> key]

Handled(ev, outcome, sink) == [ev |-> ev, outcome |-> outcome, sink |-> sink]

SessionInit ==
    /\ which \in {"session", "client"}
    /\ routes = {}
    /\ incoming = <<>>
    /\ dispatch = "running"
    /\ delivered = <<>>
    /\ handled = <<>>
    /\ issued = 0
    /\ DecoderIdle
    /\ TorrentIdle
    /\ WorkerIdle
    /\ V2Idle

\* incoming_tx.send(ev).await with its result ignored: the event is queued
\* while the receiver lives and is lost once the dispatch task has ended.
send(ev) ==
    /\ issued < MaxEvents
    /\ Len(incoming) < ChannelCapacity
    /\ issued' = issued + 1
    /\ incoming' = IF dispatch = "running" THEN Append(incoming, ev) ELSE incoming
    /\ UNCHANGED <<which, routes, dispatch, delivered, handled, decVars, torVars, workVars, v2Vars>>

\* The accept task, of both sessions.
Accept ==
    \E hs \in {"valid", "invalid"}, key \in InfoHashes :
        send(NewConn(issued + 1, hs, key))

SendRegisterWorker ==
    /\ which = "session"
    /\ \E key \in InfoHashes : send(RegisterWorker(key, issued + 1))

SendUnregisterWorker ==
    /\ which = "session"
    /\ \E key \in InfoHashes : send(UnregisterWorker(key))

\* The dispatch task ends in a panic: its receiver is dropped with what it
\* still held.
panicked(ev) ==
    /\ dispatch' = "panicked"
    /\ incoming' = <<>>
    /\ handled' = Append(handled, Handled(ev, "panicked", HashMap_get(routes, ev.key)))
    /\ UNCHANGED <<which, routes, delivered, issued, decVars, torVars, workVars, v2Vars>>

DispatchNewConn ==
    /\ which = "session"
    /\ dispatch = "running"
    /\ incoming # <<>>
    /\ Head(incoming).kind = "NewConn"
    /\ panicked(Head(incoming))

register_unchecked(ev) ==
    /\ routes' = HashMap_insert(routes, ev.key, ev.tx)
    /\ incoming' = Tail(incoming)
    /\ handled' = Append(handled, Handled(ev, "inserted", HashMap_get(routes, ev.key)))
    /\ UNCHANGED <<which, dispatch, delivered, issued, decVars, torVars, workVars, v2Vars>>

register(ev) ==
    IF HashMap_contains_key(routes, ev.key)
    THEN panicked(ev)
    ELSE /\ routes' = HashMap_insert(routes, ev.key, ev.tx)
         /\ incoming' = Tail(incoming)
         /\ handled' = Append(handled, Handled(ev, "inserted", None))
         /\ UNCHANGED <<which, dispatch, delivered, issued, decVars, torVars, workVars, v2Vars>>

DispatchRegisterWorker ==
    /\ which = "session"
    /\ dispatch = "running"
    /\ incoming # <<>>
    /\ Head(incoming).kind = "RegisterWorker"
    /\ register(Head(incoming))

DispatchUnregisterWorker ==
    /\ which = "session"
    /\ dispatch = "running"
    /\ incoming # <<>>
    /\ Head(incoming).kind = "UnregisterWorker"
    /\ routes' = HashMap_remove(routes, Head(incoming).key)
    /\ incoming' = Tail(incoming)
    /\ handled' = Append(handled, Handled(Head(incoming), "removed",
                                          HashMap_get(routes, Head(incoming).key)))
    /\ UNCHANGED <<which, dispatch, delivered, issued, decVars, torVars, workVars, v2Vars>>

add_downloader(key) ==
    IF HashMap_contains_key(routes, key)
    THEN /\ routes' = routes
         /\ handled' = Append(handled, Handled(RegisterWorker(key, issued + 1),
                                               "TrackerDublicate",
                                               HashMap_get(routes, key)))
    ELSE /\ routes' = HashMap_insert(routes, key, issued + 1)
         /\ handled' = Append(handled, Handled(RegisterWorker(key, issued + 1),
                                               "inserted", None))

AddDownloader ==
    /\ which = "client"
    /\ issued < MaxEvents
    /\ issued' = issued + 1
    /\ \E key \in InfoHashes : add_downloader(key)
    /\ UNCHANGED <<which, incoming, dispatch, delivered, decVars, torVars, workVars, v2Vars>>

\* "let me compile".as_bytes().try_into() for [u8; 20].
LetMeCompile == <<108, 101, 116, 32, 109, 101, 32, 99, 111, 109, 112, 105, 108, 101>>
TryInto20(bytes) == IF Len(bytes) = InfoHashLen THEN Some(bytes) ELSE None

\* The dispatch task of client.rs on a connection: the infohash is not read
\* from the stream, and the send to the worker found is never awaited.
client_dispatch(ev) ==
    IF TryInto20(LetMeCompile) = None
    THEN panicked(ev)
    ELSE /\ incoming' = Tail(incoming)
         /\ handled' = Append(handled,
                              Handled(ev, "dropped",
                                      HashMap_get(routes, TryInto20(LetMeCompile)[1])))
         /\ UNCHANGED <<which, routes, dispatch, delivered, issued, decVars, torVars, workVars, v2Vars>>

ClientDispatch ==
    /\ which = "client"
    /\ dispatch = "running"
    /\ incoming # <<>>
    /\ client_dispatch(Head(incoming))

MaxReads == 2
BeginHash == "h2"

Status_default ==
    [progress |-> 0, download_speed |-> 0, peers |-> 0, seeds |-> 0,
     is_finished |-> FALSE]

\* watch::channel(value): the value and the number of sends so far.
Watch(value) == [value |-> value, version |-> 0]

Reads(log) == {k \in 1..Len(log) : log[k][1] = "status"}

\* Session::add_torrent(torrent).begin(): the two channels, the
\* Downloader, the task.
TrackerBegin ==
    /\ which \in {"session", "client"}
    /\ begun = "no"
    /\ begun' = "ok"
    /\ status_rx' = Watch(Status_default)
    /\ join' = "spawned"
    /\ UNCHANGED <<wpc, worker_state, tracker_state, left, command_rx, command_tx,
                   status_tx, wlog, decVars, torVars, sessVars, v2Vars>>

\* The spawned task: Downloader::run is todo!().
DownloaderRun ==
    /\ join = "spawned"
    /\ join' = "panicked"
    /\ UNCHANGED <<wpc, worker_state, tracker_state, left, command_rx, command_tx,
                   status_tx, wlog, begun, status_rx, decVars, torVars, sessVars, v2Vars>>

\* Tracker::status.
TrackerStatus ==
    /\ begun = "ok"
    /\ Cardinality(Reads(wlog)) < MaxReads
    /\ wlog' = Append(wlog, <<"status", status_rx.value, status_rx.version>>)
    /\ UNCHANGED <<wpc, worker_state, tracker_state, left, command_rx, command_tx,
                   status_tx, begun, join, status_rx, decVars, torVars, sessVars, v2Vars>>

SessionNext ==
    \/ Accept
    \/ SendRegisterWorker
    \/ SendUnregisterWorker
    \/ DispatchNewConn
    \/ DispatchRegisterWorker
    \/ DispatchUnregisterWorker
    \/ AddDownloader
    \/ ClientDispatch
    \/ TrackerBegin
    \/ DownloaderRun
    \/ TrackerStatus

SessionSpec == SessionInit /\ [][SessionNext]_vars

\* C19: after any sequence of RegisterWorker, UnregisterWorker and NewConn
\* events the routing table holds at most one sink for each infohash, and a
\* registration for an infohash that is registered is rejected: no step
\* replaces the sink of an infohash that stays registered, and every
\* registration dealt with while its infohash was registered left the table
\* as it was.
C19_OneSinkFirstStays ==
    /\ [](\A p, q \in routes : p[1] = q[1] => p = q)
    /\ [][\A p \in routes : HashMap_contains_key(routes', p[1]) => p \in routes']_vars
    /\ [](\A k \in 1..Len(handled) :
             (handled[k].ev.kind = "RegisterWorker" /\ handled[k].sink # None)
                 => handled[k].outcome \in {"panicked", "TrackerDublicate"})

C19_Witness ==
    /\ handled # <<>>
    /\ handled[Len(handled)].ev.kind = "RegisterWorker"
    /\ handled[Len(handled)].sink # None
    /\ <<handled[Len(handled)].ev.key, handled[Len(handled)].sink[1]>> \in routes
    /\ handled[Len(handled)].ev.tx # handled[Len(handled)].sink[1]

\* The deliveries of the connection id.
Deliveries(id) == {k \in 1..Len(delivered) : delivered[k].id = id}

\* C20: a connection with a valid handshake whose infohash is registered
\* when its NewConn event is dealt with is delivered to the sink registered
\* for that infohash, to no other sink, and exactly once.
C20_DeliveredOnce ==
    \A k \in 1..Len(handled) :
        (/\ handled[k].ev.kind = "NewConn"
         /\ handled[k].ev.hs = "valid"
         /\ handled[k].sink # None)
            => /\ Cardinality(Deliveries(handled[k].ev.id)) = 1
               /\ \A d \in Deliveries(handled[k].ev.id) :
                      delivered[d].sink = handled[k].sink[1]

\* C21: a NewConn event whose handshake is invalid or whose infohash has
\* no route only drops that connection: it is delivered to no sink and the
\* dispatch task stays alive for the events that follow.
C21_DropOnlyTheConnection ==
    \A k \in 1..Len(handled) :
        (/\ handled[k].ev.kind = "NewConn"
         /\ (handled[k].ev.hs = "invalid" \/ handled[k].sink = None))
            => /\ Deliveries(handled[k].ev.id) = {}
               /\ handled[k].outcome = "dropped"
               /\ dispatch = "running"

\* The token the builder reads next, and the one after it.
Token1 == tk_next(tcase.bytes, dec_pos)
Token2 == tk_next(tcase.bytes, Token1.pos)
Got(kind) == Token1.err = "none" /\ Token1.tok.kind = kind
GotKey(key, kind) ==
    /\ Got("String")
    /\ Token1.tok.val = key
    /\ Token2.err = "none"
    /\ Token2.tok.kind = kind

\* The transitions listed for the builder: from, to, and what was read.
ListedTransition(from, to) ==
    \/ from = "Begin" /\ to = "MetaInfo" /\ Got("BeginDict")
    \/ from = "MetaInfo" /\ to = "Info" /\ GotKey(k_info, "BeginDict")
    \/ from = "MetaInfo" /\ to = "Finished" /\ Got("EndObject")
    \/ from = "Info" /\ to = "Files" /\ GotKey(k_files, "BeginList")
    \/ from = "Info" /\ to = "MetaInfo" /\ Got("EndObject")
    \/ from = "Files" /\ to = "SingularFile" /\ Got("BeginDict")
    \/ from = "Files" /\ to = "Info" /\ Got("EndObject")
    \/ from = "SingularFile" /\ to = "SingularFilePath" /\ GotKey(k_path, "BeginList")
    \/ from = "SingularFile" /\ to = "Files" /\ Got("EndObject")
    \/ from = "SingularFilePath" /\ to = "SingularFile" /\ Got("EndObject")

\* The kinds of token a state takes.
Takes(st) ==
    IF st = "Begin" THEN {"BeginDict"}
    ELSE IF st = "Files" THEN {"BeginDict", "EndObject"}
    ELSE {"String", "EndObject"}

\* C29: while the build goes on the builder changes state only along the
\* listed transitions, each on the tokens listed for it; in every state a
\* token of any other kind ends the build with an error; and Ok is returned
\* only from Finished.
C29_ListedTransitions ==
    [][built = Running =>
           /\ (built' = Running /\ state' # state) => ListedTransition(state, state')
           /\ (state # "Finished" /\ (Token1.err # "none"
                                      \/ Token1.tok.kind \notin Takes(state)))
                  => built'[1] = "Err"
           /\ built'[1] = "Ok" => state = "Finished"]_vars

C29_Witness ==
    /\ tcase.fam = "badtoken"
    /\ state = "SingularFilePath"
    /\ built = UnexpectedTypeForKey("FilesPath", "String", "BeginDict")

\* C30: for a multi-file torrent whose files list holds n >= 1 file
\* dictionaries the built descriptor has n File entries in list order, the
\* k-th holding the length and the path segments of the k-th dictionary
\* and of no other.
C30_FilesInOrder ==
    (Built /\ tcase.fam = "multi") =>
        /\ built[1] = "Ok"
        /\ built[2].files = Some(tcase.aux)

(***************************************************************************)
(* sessions: the worker of worker.rs and TrackerBuilder::begin of          *)
(* tracker.rs.  One turn of the loop of work is one action up to its       *)
(* await (the sleep or the request of tick); the end of the sleep and the  *)
(* two outcomes of the request are actions of their own.                   *)
(***************************************************************************)
MaxCommands == 3
MaxTicks == 3
CommandCapacity == 32

Commands == {"Pause", "Resume", "Abort"}

\* The infohash of the torrent the worker announces.
WorkerHash == "h1"

handle_cmd_unpaused(cmd) == IF cmd = "Abort" THEN "Aborted" ELSE "Running"

handle_cmd(cmd) ==
    IF cmd = "Pause" THEN "Paused"
    ELSE IF cmd = "Resume" THEN "Running"
    ELSE "Aborted"

\* The query parameters of the announce, in the order they are written.
build_url ==
    <<(<<"info_hash", WorkerHash>>), (<<"peer_id", "peer">>), (<<"port", "port">>),
      (<<"uploaded", 0>>), (<<"downloaded", 0>>), (<<"left", left>>)>>

Param(url, name) ==
    IF \E k \in 1..Len(url) : url[k][1] = name
    THEN Some(url[CHOOSE k \in 1..Len(url) : url[k][1] = name][2])
    ELSE None

\* What wlog holds.
Jobs(log) == {k \in 1..Len(log) : log[k][1] \in {"announce", "sleep"}}
Sent(log) == {k \in 1..Len(log) : log[k][1] = "sent"}
Received(log) == {k \in 1..Len(log) : log[k][1] = "recv"}

WorkerInit ==
    /\ wpc = "loop"
    /\ worker_state = "Running"
    /\ tracker_state = "Started"
    /\ left \in {0, 1}
    /\ command_rx = <<>>
    /\ command_tx = TRUE
    /\ status_tx = Watch(Status_default)
    /\ wlog = <<>>
    /\ begun = "no"
    /\ join = "none"
    /\ status_rx = <<>>
    /\ which = "session"
    /\ routes = {<<WorkerHash, 1>>}
    /\ incoming = <<>>
    /\ dispatch = "running"
    /\ delivered = <<>>
    /\ handled = <<Handled(RegisterWorker(WorkerHash, 1), "inserted", None)>>
    /\ issued = 1
    /\ DecoderIdle
    /\ TorrentIdle
    /\ V2Idle

workerRest == <<tracker_state, left, status_tx, begun, join, status_rx,
                decVars, torVars, sessVars, v2Vars>>

\* Step 2 of the loop for the worker state ws, log being wlog with what
\* step 1 did.
do_the_job(ws, log) ==
    /\ ws = "Aborted" \/ Cardinality(Jobs(wlog)) < MaxTicks
    /\ worker_state' = ws
    /\ wpc' = IF ws = "Paused" THEN "sleeping"
              ELSE IF ws = "Aborted" THEN "exited"
              ELSE "ticking"
    /\ wlog' = IF ws = "Paused" THEN Append(log, <<"sleep">>)
               ELSE IF ws = "Aborted" THEN Append(log, <<"exit">>)
               ELSE Append(log, <<"announce", build_url>>)

\* try_recv gives a command.
WorkCommand ==
    /\ wpc = "loop"
    /\ command_rx # <<>>
    /\ command_rx' = Tail(command_rx)
    /\ do_the_job(handle_cmd(Head(command_rx)),
                  Append(wlog, <<"recv", Head(command_rx)>>))
    /\ UNCHANGED <<command_tx, workerRest>>

disconnected_ignored(ws) == ws

disconnected(ws) == "Aborted"

\* try_recv gives Disconnected: the channel is empty and has no sender.
WorkDisconnected ==
    /\ wpc = "loop"
    /\ command_rx = <<>>
    /\ ~command_tx
    /\ do_the_job(disconnected(worker_state), Append(wlog, <<"disconnected">>))
    /\ UNCHANGED <<command_rx, command_tx, workerRest>>

\* try_recv gives Empty.
WorkEmpty ==
    /\ wpc = "loop"
    /\ command_rx = <<>>
    /\ command_tx
    /\ do_the_job(worker_state, wlog)
    /\ UNCHANGED <<command_rx, command_tx, workerRest>>

SleepDone ==
    /\ wpc = "sleeping"
    /\ wpc' = "loop"
    /\ wlog' = Append(wlog, <<"done">>)
    /\ UNCHANGED <<worker_state, command_rx, command_tx, workerRest>>

\* tick: the request and the reading of the response succeed.
TickOk ==
    /\ wpc = "ticking"
    /\ wpc' = "loop"
    /\ wlog' = Append(wlog, <<"done">>)
    /\ UNCHANGED <<worker_state, command_rx, command_tx, workerRest>>

\* tick: send() or bytes() gives Err and unwrap panics; the worker's
\* receiver goes with it.
TickFail ==
    /\ wpc = "ticking"
    /\ wpc' = "panicked"
    /\ wlog' = Append(wlog, <<"panic">>)
    /\ command_rx' = <<>>
    /\ UNCHANGED <<worker_state, command_tx, workerRest>>

\* A holder of the command sender sends a command.
SendCommand ==
    /\ command_tx
    /\ wpc \notin {"exited", "panicked"}
    /\ Len(command_rx) < CommandCapacity
    /\ Cardinality(Sent(wlog)) < MaxCommands
    /\ \E cmd \in Commands :
           /\ command_rx' = Append(command_rx, cmd)
           /\ wlog' = Append(wlog, <<"sent", cmd>>)
    /\ UNCHANGED <<wpc, worker_state, command_tx, workerRest>>

\* The last sender of the command channel is dropped.
DropSenders ==
    /\ command_tx
    /\ command_tx' = FALSE
    /\ wlog' = Append(wlog, <<"closed">>)
    /\ UNCHANGED <<wpc, worker_state, command_rx, workerRest>>

WorkerNext ==
    \/ WorkCommand
    \/ WorkDisconnected
    \/ WorkEmpty
    \/ SleepDone
    \/ TickOk
    \/ TickFail
    \/ SendCommand
    \/ DropSenders

WorkerSpec == WorkerInit /\ [][WorkerNext]_vars

\* The events sent to the session so far: those dealt with and those in
\* the channel.
EventsSent ==
    {handled[k].ev : k \in 1..Len(handled)} \cup {incoming[k] : k \in 1..Len(incoming)}

\* C22: a worker that has left its work loop (after Abort or after its
\* command channel closed) has deregistered its route: an UnregisterWorker
\* for its infohash has been sent to the session.
C22_DeregistersOnExit ==
    wpc = "exited" => UnregisterWorker(WorkerHash) \in EventsSent

\* C23: once an Abort has been sent on the command channel the worker
\* begins at most one further tick or sleep before it leaves its loop,
\* whatever commands were queued ahead of the Abort.
C23_AbortWithinOneJob ==
    \A k \in Sent(wlog) :
        wlog[k][2] = "Abort" => Cardinality({j \in Jobs(wlog) : j > k}) <= 1

IsSent(e) == e[1] = "sent"
IsReceived(e) == e[1] = "recv"
\* The commands sent and the commands handled, in order.
SentCommands == [k \in 1..Cardinality(Sent(wlog)) |-> SelectSeq(wlog, IsSent)[k][2]]
HandledCommands ==
    [k \in 1..Cardinality(Received(wlog)) |-> SelectSeq(wlog, IsReceived)[k][2]]

\* C24: the worker handles its commands in the order they were sent; it
\* finds the channel closed only after every sender is dropped and every
\* queued command is handled, and then, whether Running or Paused,
\* worker_state becomes Aborted and it leaves its loop in that turn, with no
\* further announce or sleep.
C24_ClosedChannelIsAbort ==
    /\ Len(HandledCommands) <= Len(SentCommands)
    /\ HandledCommands = SubSeq(SentCommands, 1, Len(HandledCommands))
    /\ \A k \in 1..Len(wlog) :
           wlog[k][1] = "disconnected" =>
               /\ \E c \in 1..(k - 1) : wlog[c][1] = "closed"
               /\ HandledCommands = SentCommands
               /\ k + 1 = Len(wlog)
               /\ wlog[k + 1] = <<"exit">>
               /\ worker_state = "Aborted"
               /\ wpc = "exited"

C24_Witness ==
    /\ wpc = "exited"
    /\ Len(wlog) >= 6
    /\ wlog[Len(wlog) - 1] = <<"disconnected">>
    /\ wlog[Len(wlog) - 2] = <<"done">>
    /\ wlog[Len(wlog) - 3] = <<"sleep">>
    /\ wlog[Len(wlog) - 4] = <<"recv", "Pause">>
    /\ \E c \in 1..(Len(wlog) - 5) : wlog[c] = <<"closed">>

Announces(log) == {k \in 1..Len(log) : log[k][1] = "announce"}
Event(k) == Param(wlog[k][2], "event")

\* C25: the first announce of a worker carries event=started, a worker
\* that has left its loop has made an announce with event=stopped, and no
\* two announces in a row carry the same event value.
C25_EventFollowsTrackerState ==
    /\ \A k \in Announces(wlog) :
           (\A j \in Announces(wlog) : j >= k) => Event(k) = Some("started")
    /\ wpc = "exited" => \E k \in Announces(wlog) : Event(k) = Some("stopped")
    /\ \A j, k \in Announces(wlog) :
           (j < k /\ \A m \in Announces(wlog) : m <= j \/ m >= k) =>
               Event(j) = None \/ Event(j) # Event(k)

AnnounceFailed == \E k \in 1..Len(wlog) : wlog[k] = <<"panic">>

\* C26: a failed announce does not end the worker: after send() or bytes()
\* has given an error the worker is still in its loop, waiting or
\* announcing again.
C26_FailedAnnounceKeepsWorker ==
    AnnounceFailed => wpc \in {"loop", "sleeping", "ticking"}

\* C27: when begin() has returned Ok, a RegisterWorker event for the
\* torrent's infohash has been sent to the session's event channel.
C27_BeginRegistersFirst ==
    begun = "ok" =>
        \E e \in EventsSent : e.kind = "RegisterWorker" /\ e.key = BeginHash

Iterations(log) == {k \in 1..Len(log) : log[k] = <<"done">>}

\* C28: every finished iteration of the work loop has published a status
\* snapshot: the status watch has been sent to at least once per iteration.
C28_StatusPublishedEachIteration ==
    Cardinality(Iterations(wlog)) <= status_tx.version

\* C31: a build that succeeds stores the piece length the buffer gives, an
\* integer of at least 1: no negative integer is stored as a wrapped
\* unsigned 64-bit number.
C31_PieceLengthAtLeastOne ==
    (Built /\ built[1] = "Ok") =>
        /\ ~built[2].piece_length.wrapped
        /\ built[2].piece_length # U64Zero

\* C32: when the token that follows a recognised key is of the wrong kind
\* the build fails with UnexpectedTypeForKey whose key is that key, whose
\* expected is the kind the key takes and whose got is the kind found.
C32_WrongTypeNamesTheKey ==
    (Built /\ tcase.fam = "wrongtype") => built \in tcase.want

\* One complete value by the grammar: an integer, a string, or l or d,
\* complete values and the e that closes it.  ValueEnd is the position
\* right after the value that starts at pos, or -1 when there is none.
RECURSIVE ItemsEnd(_, _)
RECURSIVE ValueEndTok(_, _)
ItemsEndTok(inp, pos, t) ==
    IF t.err # "none" THEN -1
    ELSE IF t.tok.kind = "EndObject" THEN t.pos
    ELSE ItemsEnd(inp, ValueEndTok(inp, t))
ItemsEnd(inp, pos) ==
    IF pos = -1 THEN -1 ELSE ItemsEndTok(inp, pos, tk_next(inp, pos))
ValueEndTok(inp, t) ==
    IF t.err # "none" THEN -1
    ELSE IF t.tok.kind \in {"Int", "String"} THEN t.pos
    ELSE IF t.tok.kind = "EndObject" THEN -1
    ELSE ItemsEnd(inp, t.pos)
ValueEnd(inp, pos) == ValueEndTok(inp, tk_next(inp, pos))

KnownKeys(st) ==
    IF st = "MetaInfo" THEN {k_announce, k_info}
    ELSE IF st = "Info" THEN {k_name, k_piece_length, k_pieces, k_length, k_files}
    ELSE {k_length, k_path}

\* The next step of the build is the skip of the value of an unknown key.
SkipsHere ==
    /\ built = Running
    /\ state \in {"MetaInfo", "Info", "SingularFile"}
    /\ Got("String")
    /\ Token1.tok.val \notin KnownKeys(state)

\* C33: the skip of the value of an unknown key moves the cursor to right
\* after one complete value, whatever lists and dictionaries are nested in
\* it, and leaves the state, info_begin and the descriptor as they were;
\* when the first token is EndObject it fails.
C33_SkipConsumesOneValue ==
    [][SkipsHere =>
           /\ ValueEnd(tcase.bytes, Token1.pos) # -1 =>
                  /\ built' = Running
                  /\ dec_pos' = ValueEnd(tcase.bytes, Token1.pos)
                  /\ state' = state
                  /\ info_begin' = info_begin
                  /\ torrent' = torrent
           /\ (Token2.err = "none" /\ Token2.tok.kind = "EndObject") =>
                  built' = Err("UnexpectedObjectClosure")]_vars

\* A value of MaxNest lists or dictionaries in each other has just been
\* skipped in a file dictionary.
C33_Witness ==
    /\ built = Running
    /\ tcase.fam = "unknown_file"
    /\ state = "SingularFile"
    /\ \E p \in 0..(dec_pos - 2 * MaxNest - 3) :
           /\ At(tcase.bytes, p + 2) = Head(k_x)
           /\ tk_next(tcase.bytes, p).err = "none"
           /\ tk_next(tcase.bytes, p).tok.val = k_x
           /\ dec_pos - tk_next(tcase.bytes, p).pos >= 2 * MaxNest + 3
           /\ ValueEnd(tcase.bytes, tk_next(tcase.bytes, p).pos) = dec_pos

\* The n-th index of the set S of indices of wlog.
Nth(S, n) == CHOOSE i \in S : Cardinality({j \in S : j <= i}) = n

\* C34: the worker takes every command queued at the start of an iteration
\* before it acts: when the next command was already sent by the time a
\* command is handled, no announce and no sleep lies between the handling
\* of the two.
C34_DrainsQueuedCommands ==
    \A n \in 1..(Cardinality(Received(wlog)) - 1) :
        Nth(Sent(wlog), n + 1) < Nth(Received(wlog), n) =>
            \A j \in Jobs(wlog) :
                j < Nth(Received(wlog), n) \/ j > Nth(Received(wlog), n + 1)

\* What set worker_state before the entry k of wlog: the last command
\* handled or closed channel seen before k, "Resume" when there is none.
Setters(k) == {j \in 1..(k - 1) : wlog[j][1] \in {"recv", "disconnected"}}
LastSet(k) ==
    IF Setters(k) = {} THEN "Resume"
    ELSE IF wlog[Nth(Setters(k), Cardinality(Setters(k)))][1] = "disconnected"
    THEN "Abort"
    ELSE wlog[Nth(Setters(k), Cardinality(Setters(k)))][2]

\* C35: a worker whose state is Paused only sleeps: every announce is made
\* with the state Running, that is after a Resume or before any command,
\* every sleep with the state Paused, and once the state is Aborted the
\* worker has left its loop and announces no more.
C35_NoAnnounceWhilePaused ==
    /\ \A k \in Announces(wlog) : LastSet(k) = "Resume"
    /\ \A k \in Jobs(wlog) \ Announces(wlog) : LastSet(k) = "Pause"
    /\ worker_state = "Paused" => wpc \in {"sleeping", "loop"}
    /\ worker_state = "Aborted" =>
           /\ wpc = "exited"
           /\ \E e \in 1..Len(wlog) :
                  /\ wlog[e] = <<"exit">>
                  /\ LastSet(e) = "Abort"
                  /\ \A k \in Jobs(wlog) : k < e

C35_Witness ==
    /\ wpc = "ticking"
    /\ \E i, j \in 1..Len(wlog) :
           /\ i + 2 < j
           /\ wlog[i] = <<"recv", "Pause">>
           /\ wlog[i + 1] = <<"sleep">>
           /\ wlog[j] = <<"recv", "Resume">>
           /\ j + 1 = Len(wlog)
           /\ wlog[j + 1][1] = "announce"

(***************************************************************************)
(* bencodev2/decoder.rs: the whole-buffer tokenizer.  A call of next_token *)
(* gives what it returns (Ok(token), Err(kind), or a panic) and the cursor *)
(* it leaves.                                                              *)
(***************************************************************************)
MaxTokens == 3
MaxBufLen == 4
MaxCalls == 4
MaxTokenLen == 12

V2Int(n) == <<"Int", n>>
V2String(s) == <<"String", s>>
EndObject == <<"EndObject">>

V2Ret(ret, pos) == [ret |-> ret, pos |-> pos]
Panic == <<"Panic">>

\* give_int_token that leaves the cursor on the e.
v2_int_token_short(pos, e_pos, r) ==
    IF r.n # None
    THEN IF r.used # e_pos - 1 THEN V2Ret(Err("WrongSyntax"), pos + 1)
         ELSE V2Ret(Ok(V2Int(r.n[1])), pos + e_pos)
    ELSE V2Ret(Err("WrongSyntax"), pos + 1)

\* give_int_token, from the match on the result r of the parse; e_pos is
\* the index of the first e counted from the i.
v2_int_token(pos, e_pos, r) ==
    IF r.n # None
    THEN IF r.used # e_pos - 1 THEN V2Ret(Err("WrongSyntax"), pos + 1)
         ELSE V2Ret(Ok(V2Int(r.n[1])), pos + 1 + e_pos)
    ELSE V2Ret(Err("WrongSyntax"), pos + 1)

v2_give_int_at(inp, pos, e_pos) ==
    IF e_pos = NotFound THEN V2Ret(Err("UnfinishedInt"), pos)
    ELSE IF e_pos - 1 > MaxTokenLen THEN V2Ret(Err("TokenTooLarge"), pos)
    ELSE v2_int_token(pos, e_pos,
             FromRadix10SignedChecked(Slice(inp, pos + 1, pos + 1 + e_pos),
                                      I64MaxMag, I64MinMag))

v2_give_int_token(inp, pos) ==
    v2_give_int_at(inp, pos, Position(Slice(inp, pos, Len(inp)), b_e))

\* The length len, a magnitude of at most MaxTokenLen digits, is more than
\* the have bytes left.
Exceeds(len, have) == Len(len) > 9 \/ MagToNat(len) > have

\* give_string_token after the length prefix: pos is right after the colon.
v2_string_payload(inp, pos, len) ==
    IF Exceeds(len, Len(inp) - pos)
    THEN V2Ret(<<"Err", "UnfinishedString", len, Len(inp) - pos>>, pos)
    ELSE V2Ret(Ok(V2String(Slice(inp, pos, pos + MagToNat(len)))),
               pos + MagToNat(len))

v2_string_token(inp, pos, col_pos, r) ==
    IF r.n # None
    THEN IF r.used # col_pos THEN V2Ret(Err("WrongSyntax"), pos)
         ELSE v2_string_payload(inp, pos + col_pos + 1, r.n[1].mag)
    ELSE V2Ret(Err("WrongSyntax"), pos)

v2_give_string_at(inp, pos, col_pos) ==
    IF col_pos = NotFound THEN V2Ret(Err("MissingColonInString"), pos)
    ELSE IF col_pos > MaxTokenLen THEN V2Ret(Err("TokenTooLarge"), pos)
    ELSE v2_string_token(inp, pos, col_pos,
             FromRadix10SignedChecked(Slice(inp, pos, pos + col_pos),
                                      USizeMaxMag, <<>>))

v2_give_string_token(inp, pos) ==
    v2_give_string_at(inp, pos, Position(Slice(inp, pos, Len(inp)), b_colon))

\* The test of the cursor at the head of next_token.
v2_out_of_bounds(inp, pos) == pos > Len(inp)

\* Decoder::next_token with the cursor at pos; src[pos] panics when pos is
\* not an index of the buffer.
v2_next_token(inp, pos) ==
    IF v2_out_of_bounds(inp, pos) THEN V2Ret(Err("PosOutOfBounds"), pos)
    ELSE IF pos >= Len(inp) THEN V2Ret(Panic, pos)
    ELSE IF At(inp, pos) = b_i THEN v2_give_int_token(inp, pos)
    ELSE IF IsDigit(At(inp, pos)) THEN v2_give_string_token(inp, pos)
    ELSE IF At(inp, pos) = b_l THEN V2Ret(Ok(BeginList), pos + 1)
    ELSE IF At(inp, pos) = b_d THEN V2Ret(Ok(BeginDict), pos + 1)
    ELSE IF At(inp, pos) = b_e THEN V2Ret(Ok(EndObject), pos + 1)
    ELSE V2Ret(<<"Err", "UnknownToken", At(inp, pos)>>, pos)

\* The buffers: tokens one after another (toks holds each token and its
\* encoding), and every buffer of up to MaxBufLen bytes of V2Alphabet.
V2Tok(enc, tok) == [enc |-> enc, tok |-> tok]
IntTok(neg, mag) ==
    V2Tok(Enc(IntV(I64(neg, mag))), V2Int(I64(neg, mag)))
StrTok(s) == V2Tok(Enc(StringV(s)), V2String(s))
V2Toks ==
    {IntTok(FALSE, <<>>), IntTok(TRUE, <<7>>),
     IntTok(FALSE, <<1, 2, 3, 4, 5, 6, 7, 8, 9, 0, 1, 2>>),
     IntTok(TRUE, <<1, 2, 3, 4, 5, 6, 7, 8, 9, 0, 1>>),
     StrTok(<<>>), StrTok(<<b_e, b_colon, b_i, b_0 + 1>>), StrTok(Bytes(10)),
     V2Tok(<<b_l>>, BeginList), V2Tok(<<b_d>>, BeginDict),
     V2Tok(<<b_e>>, EndObject)}

V2Alphabet == {b_i, b_0 + 1, b_colon, b_e, b_a, b_minus}

V2Case(fam, bytes, toks) == [fam |-> fam, bytes |-> bytes, toks |-> toks]
V2Cases ==
    {V2Case("tokens", Concat([k \in 1..Len(ts) |-> ts[k].enc]), ts) :
        ts \in SeqsUpTo(V2Toks, MaxTokens) \ {<<>>}}
    \cup {V2Case("bytes", b, <<>>) : b \in SeqsUpTo(V2Alphabet, MaxBufLen)}

V2Init ==
    /\ v2case \in V2Cases
    /\ v2pos = 0
    /\ v2from = 0
    /\ v2ret = <<"New">>
    /\ v2calls = 0
    /\ DecoderIdle
    /\ TorrentIdle
    /\ SessionIdle
    /\ WorkerIdle

\* A call of next_token.
V2Call ==
    /\ v2ret # Panic
    /\ v2ret # <<"Idle">>
    /\ v2calls < MaxCalls
    /\ v2from' = v2pos
    /\ v2pos' = v2_next_token(v2case.bytes, v2pos).pos
    /\ v2ret' = v2_next_token(v2case.bytes, v2pos).ret
    /\ v2calls' = v2calls + 1
    /\ UNCHANGED <<v2case, decVars, torVars, sessVars, workVars>>

\* The call by the byte under the cursor.
V2NextInt == v2pos < Len(v2case.bytes) /\ At(v2case.bytes, v2pos) = b_i /\ V2Call
V2NextString ==
    v2pos < Len(v2case.bytes) /\ IsDigit(At(v2case.bytes, v2pos)) /\ V2Call
V2NextStructural ==
    v2pos < Len(v2case.bytes) /\ At(v2case.bytes, v2pos) \in {b_l, b_d, b_e} /\ V2Call
V2NextUnknown ==
    /\ v2pos < Len(v2case.bytes)
    /\ At(v2case.bytes, v2pos) \notin {b_i, b_l, b_d, b_e}
    /\ ~IsDigit(At(v2case.bytes, v2pos))
    /\ V2Call
V2NextAtEnd == v2pos >= Len(v2case.bytes) /\ V2Call

V2Next ==
    \/ V2NextInt
    \/ V2NextString
    \/ V2NextStructural
    \/ V2NextUnknown
    \/ V2NextAtEnd

V2Spec == V2Init /\ [][V2Next]_vars

\* Where the k-th token of the buffer starts, by the construction of the
\* buffer.
StartOf(ts, k) == Len(Concat([j \in 1..(k - 1) |-> ts[j].enc]))

\* The token of parser.rs for a token of the whole-buffer tokenizer.
AsStreamToken(tok) ==
    IF tok[1] = "Int" THEN Primitive(IntV(tok[2]))
    ELSE IF tok[1] = "String" THEN Primitive(StringV(tok[2]))
    ELSE IF tok = EndObject THEN EndOfObj
    ELSE tok

\* The streaming tokenizer on the buffer from its k-th token on reports
\* that token and removes exactly its bytes.
StreamTakes(c, k) ==
    /\ next_token(Slice(c.bytes, StartOf(c.toks, k), Len(c.bytes))).err = "none"
    /\ next_token(Slice(c.bytes, StartOf(c.toks, k), Len(c.bytes))).tok
           = Some(AsStreamToken(c.toks[k].tok))
    /\ next_token(Slice(c.bytes, StartOf(c.toks, k), Len(c.bytes))).buf
           = Slice(c.bytes, StartOf(c.toks, k + 1), Len(c.bytes))

\* The bytes from..to of inp are the token tok: l, d or e; i, the payload
\* and e; or the digits of the length, a colon and the string.
Spans(inp, from, to, tok) ==
    IF tok[1] = "Int"
    THEN /\ At(inp, from) = b_i
         /\ At(inp, to - 1) = b_e
         /\ \A k \in (from + 1)..(to - 2) : At(inp, k) # b_e
    ELSE IF tok[1] = "String"
    THEN /\ to - from > Len(tok[2])
         /\ At(inp, to - Len(tok[2]) - 1) = b_colon
         /\ \A k \in from..(to - Len(tok[2]) - 2) : IsDigit(At(inp, k))
         /\ Slice(inp, to - Len(tok[2]), to) = tok[2]
    ELSE to = from + 1

\* C36: a call of next_token that returns a token moves the cursor by
\* the encoded length of that token: 1 for l, d and e, the payload and 2
\* for an integer, the digits of the length, 1 and n for a string of n
\* bytes; on a buffer of tokens one after another the k-th call returns the
\* k-th token, from where it starts to where the next one starts, and the
\* streaming tokenizer reports the same token and length.
C36_ConsumedIsEncodedLength ==
    /\ v2ret[1] = "Ok" =>
           /\ v2pos <= Len(v2case.bytes)
           /\ Spans(v2case.bytes, v2from, v2pos, v2ret[2])
    /\ (v2case # <<>> /\ v2case.fam = "tokens") =>
           /\ v2calls \in 1..Len(v2case.toks) =>
                  /\ StreamTakes(v2case, v2calls)
                  /\ v2ret = Ok(v2case.toks[v2calls].tok)
                  /\ v2from = StartOf(v2case.toks, v2calls)
                  /\ v2pos = v2from + Len(v2case.toks[v2calls].enc)

C36_Witness ==
    /\ v2case.fam = "tokens"
    /\ v2calls = MaxTokens
    /\ Len(v2case.toks) = MaxTokens
    /\ v2ret = Ok(V2Int(I64(TRUE, <<7>>)))
    /\ v2case.toks[2].tok = V2String(<<b_e, b_colon, b_i, b_0 + 1>>)
    /\ v2case.toks[1].tok[1] = "Int"
    /\ v2pos = Len(v2case.bytes)

\* C37: whatever the buffer and however often next_token is called, the
\* cursor stays within the buffer, no call faults on a byte outside it, and
\* a call made with the cursor at the end of the buffer returns an error.
C37_CursorStaysInBuffer ==
    /\ v2pos <= Len(v2case.bytes)
    /\ v2ret # Panic
    /\ (v2calls > 0 /\ v2from = Len(v2case.bytes)) => v2ret[1] = "Err"

\* C38: an e that arrives while no list or dictionary is open makes the
\* decode fail: decode does not return Ok for an input that starts with an
\* unmatched e.
C38_StrayEndFails ==
    (case # <<>> /\ case.fam = "stray" /\ Done) => result[1] = "Err"

\* C39: from_bytes returns Ok only when the e that closes the root
\* dictionary is the last byte of the buffer.
C39_OkOnlyAtEndOfBuffer ==
    (Built /\ built[1] = "Ok") => dec_pos = Len(tcase.bytes)

\* C40: every iteration of the loop of decode returns, or removes at
\* least one byte from the front of the buffer and takes nothing from the
\* source, or moves at least one byte from the source to the end of the
\* buffer; so 2 * |source| + |buffer| goes down in every iteration that does
\* not return, and decode ends on every finite source.
C40_EveryIterationProgresses ==
    [][result = Running =>
           \/ result' # Running
           \/ /\ src' = src
              /\ Len(buf') < Len(buf)
              /\ buf' = SubSeq(buf, Len(buf) - Len(buf') + 1, Len(buf))
           \/ /\ Len(src') < Len(src)
              /\ buf' = buf \o SubSeq(src, 1, Len(src) - Len(src'))
              /\ src' = SubSeq(src, Len(src) - Len(src') + 1, Len(src))]_vars

\* decode has returned an error after four refills and at least as many
\* tokens.
C40_Witness ==
    /\ Done
    /\ result[1] = "Err"
    /\ chunks >= 4
    /\ Len(stack) >= 1
    /\ Len(case.bytes) >= 3 * chunks

=============================================================================
